---------------------------- MODULE Spec2Model ----------------------------
(***************************************************************************)
(* The sandboxed text-editing core of the filesystem server:               *)
(*   - validatePath  (utils.ts): the path sandbox validator,               *)
(*   - findRange     (utils.ts): the marker based range resolver,          *)
(*   - the region mutation operations built on the two.                    *)
(*                                                                         *)
(* Strings are sequences of one-character strings, so that startsWith,     *)
(* toLowerCase, substring and the regular expression of findRange work on  *)
(* characters as the code does.  A resolved path is kept as its sequence   *)
(* of segments; Text gives its string.  The path module is the POSIX one   *)
(* and the filesystem is case-sensitive.                                   *)
(***************************************************************************)
EXTENDS Integers, Sequences, FiniteSets, TLC

VARIABLES
    fs,               \* the filesystem: resolved path -> node
    rootArgs,         \* process.argv.slice(2): the directories given at start
    requestedPath,    \* SpecPath: the argument of the validatePath call
    validated,        \* SpecPath: what that call returned or threw
    rangeArgs,        \* SpecRange: content, beforeText and afterText of the findRange call
    rangeResult,      \* SpecRange: what that call returned
    call,             \* Spec: request.params of the tool call: name and arguments
    response,         \* Spec: what the call handler returned
    before0,          \* Spec: the filesystem when the call came in
    calls,            \* Spec: tool calls handled so far
    events,           \* Spec: the steps the call took, in the order it took them
    tasks,            \* SpecRace: the invocations in flight: tool, arguments, position, locals
    log               \* SpecRace: the filesystem calls of all invocations, in the order made

pathVars == <<requestedPath, validated>>
rangeVars == <<rangeArgs, rangeResult>>
opVars == <<call, response, before0, calls, events>>
raceVars == <<tasks, log>>
vars == <<fs, rootArgs, pathVars, rangeVars, opVars, raceVars>>

(***************************************************************************)
(* Bounds of the model.                                                    *)
(***************************************************************************)
MaxSegs == 3          \* segments of a requested path
MaxLinks == 2         \* symbolic links realpath follows before it gives up (ELOOP)
MaxContentLen == 4    \* characters of a file content handed to findRange
MaxMarkerLen == 2     \* characters of beforeText and of afterText
MaxFileLen == 3       \* Spec: characters of the file a tool call works on
MaxArgMarkerLen == 1  \* Spec: characters of the markers in a tool call's arguments
MaxRaceLen == 2       \* SpecRace: characters of the file two invocations work on
MaxPatternFileLen == 3  \* SpecPattern: characters of the file replace_by_pattern works on
MaxBatch == 3         \* SpecBatch: paths of one read_multiple_files call
MaxRepeat == 3        \* SpecRepeat: findRange calls one after the other
MaxCutLen == 2        \* SpecCut: characters of the file cut_to_new_file works on
MaxAgainLen == 4      \* SpecAgain: characters of the file the repeated request works on
MaxAgain == 2         \* SpecAgain: times the same request is sent

(***************************************************************************)
(* Strings.                                                                *)
(***************************************************************************)
RECURSIVE SeqsUpTo(_, _)
SeqsUpTo(S, n) ==
    IF n = 0 THEN {<<>>}
    ELSE LET shorter == SeqsUpTo(S, n - 1)
         IN  shorter \cup {Append(s, c) : s \in shorter, c \in S}

\* String.prototype.startsWith
startsWith(s, prefix) ==
    /\ Len(prefix) <= Len(s)
    /\ SubSeq(s, 1, Len(prefix)) = prefix

\* String.prototype.substring(from, to) and substring(from), 0-based, to exclusive
substring(s, from, to) == SubSeq(s, from + 1, to)
substringFrom(s, from) == SubSeq(s, from + 1, Len(s))

\* String.prototype.toLowerCase, on the letters the model uses
LowerChar(c) ==
    CASE c = "R" -> "r"
      [] c = "O" -> "o"
      [] c = "F" -> "f"
      [] OTHER   -> c
toLowerCase(s) == [i \in 1..Len(s) |-> LowerChar(s[i])]

(***************************************************************************)
(* The path module (POSIX).                                                *)
(***************************************************************************)
\* a string cut at its "/" characters, empty pieces dropped
RECURSIVE SplitFrom(_, _, _)
SplitFrom(s, i, cur) ==
    IF i > Len(s) THEN (IF cur = <<>> THEN <<>> ELSE <<cur>>)
    ELSE IF s[i] = "/"
         THEN (IF cur = <<>> THEN <<>> ELSE <<cur>>) \o SplitFrom(s, i + 1, <<>>)
         ELSE SplitFrom(s, i + 1, Append(cur, s[i]))
Split(s) == SplitFrom(s, 1, <<>>)

\* "." and ".." resolved against the segments before them; ".." at the root stays there
RECURSIVE NormSegsFrom(_, _)
NormSegsFrom(done, rest) ==
    IF rest = <<>> THEN done
    ELSE LET seg == Head(rest)
         IN  IF seg = <<".">> THEN NormSegsFrom(done, Tail(rest))
             ELSE IF seg = <<".", ".">>
                  THEN NormSegsFrom(IF done = <<>> THEN <<>>
                                    ELSE SubSeq(done, 1, Len(done) - 1), Tail(rest))
                  ELSE NormSegsFrom(Append(done, seg), Tail(rest))
NormSegs(segs) == NormSegsFrom(<<>>, segs)

\* the string of a resolved path: "/" for the root, else "/seg" for each segment
RECURSIVE Text(_)
Text(p) ==
    IF p = <<>> THEN <<"/">>
    ELSE IF Len(p) = 1 THEN <<"/">> \o p[1]
    ELSE Text(SubSeq(p, 1, Len(p) - 1)) \o <<"/">> \o p[Len(p)]

isAbsolute(s) == Len(s) > 0 /\ s[1] = "/"

\* process.cwd() and os.homedir() of the server process
cwd == << <<"o">> >>
homedir == << <<"r">> >>

\* path.resolve(s) for an absolute s, path.resolve(process.cwd(), s) otherwise
resolve(s) ==
    IF isAbsolute(s) THEN NormSegs(Split(s)) ELSE NormSegs(cwd \o Split(s))

\* path.normalize of an absolute string: a trailing "/" is kept
normalize(s) ==
    LET t == Text(NormSegs(Split(s)))
    IN  IF Len(s) > 1 /\ s[Len(s)] = "/" /\ t # <<"/">> THEN Append(t, "/") ELSE t

\* path.join(a, b)
join(a, b) == normalize(a \o <<"/">> \o b)

\* path.dirname of a resolved path
dirname(p) == IF p = <<>> THEN <<>> ELSE SubSeq(p, 1, Len(p) - 1)

normalizePath(s) == toLowerCase(normalize(s))

expandHome(filepath) ==
    IF startsWith(filepath, <<"~", "/">>) \/ filepath = <<"~">>
    THEN join(Text(homedir), substringFrom(filepath, 1))
    ELSE filepath

\* the allowed directories, stored in normalized form at start
allowedDirectories(args) ==
    [i \in 1..Len(args) |-> normalizePath(Text(resolve(expandHome(args[i]))))]

(***************************************************************************)
(* The filesystem.                                                         *)
(***************************************************************************)
\* a node: its type, its content (file), its target (link) and whether its
\* mode lets the server's user write it
Dir == [t |-> "dir", c |-> <<>>, to |-> <<>>, w |-> TRUE]
File(content) == [t |-> "file", c |-> content, to |-> <<>>, w |-> TRUE]
Link(target) == [t |-> "link", c |-> <<>>, to |-> target, w |-> TRUE]
ReadOnly(node) == [node EXCEPT !.w = FALSE]

Exists(f, p) == p = <<>> \/ p \in DOMAIN f

\* fs.realpath: every symbolic link on the way followed; fails when a component
\* is missing (ENOENT), a file is used as a directory (ENOTDIR) or the links loop (ELOOP)
RECURSIVE RealFrom(_, _, _, _)
RealFrom(f, cur, rest, fuel) ==
    IF rest = <<>> THEN [ok |-> TRUE, path |-> cur, err |-> ""]
    ELSE LET nxt == Append(cur, Head(rest))
         IN  IF nxt \notin DOMAIN f
             THEN [ok |-> FALSE, path |-> <<>>, err |-> "ENOENT"]
             ELSE IF f[nxt].t = "link"
                  THEN IF fuel = 0
                       THEN [ok |-> FALSE, path |-> <<>>, err |-> "ELOOP"]
                       ELSE RealFrom(f, <<>>, f[nxt].to \o Tail(rest), fuel - 1)
                  ELSE IF f[nxt].t = "file" /\ Tail(rest) # <<>>
                       THEN [ok |-> FALSE, path |-> <<>>, err |-> "ENOTDIR"]
                       ELSE RealFrom(f, nxt, Tail(rest), fuel)
realpath(f, p) == RealFrom(f, <<>>, p, MaxLinks)


(***************************************************************************)
(* validatePath.  A result is either a returned path or a thrown Error     *)
(* with its message.                                                       *)
(***************************************************************************)
Return(p) == [ok |-> TRUE, path |-> p, err |-> ""]
Throw(msg) == [ok |-> FALSE, path |-> <<>>, err |-> msg]

\* allowedDirectories.some(dir => normalized.startsWith(dir))
someStartsWith(dirs, normalized) ==
    \E i \in 1..Len(dirs) : startsWith(normalized, dirs[i])

\* checkRealPath returning the requested path where the code returns realPath
checkRealPath_ReturnsRequested(f, dirs, absolute) ==
    LET realPath == realpath(f, absolute)
    IN  IF ~realPath.ok THEN Throw(realPath.err)
        ELSE IF ~someStartsWith(dirs, normalizePath(Text(realPath.path)))
             THEN Throw("Access denied - symlink target outside allowed directories")
             ELSE Return(absolute)

\* the try block: realpath of the requested path and the check of the real path
checkRealPath(f, dirs, absolute) ==
    LET realPath == realpath(f, absolute)
    IN  IF ~realPath.ok THEN Throw(realPath.err)
        ELSE IF ~someStartsWith(dirs, normalizePath(Text(realPath.path)))
             THEN Throw("Access denied - symlink target outside allowed directories")
             ELSE Return(realPath.path)

\* the inner try block returning the name in the real path of its directory
checkParent_ReturnsReal(f, dirs, absolute) ==
    LET realParentPath == realpath(f, dirname(absolute))
    IN  IF ~realParentPath.ok THEN Throw(realParentPath.err)
        ELSE IF ~someStartsWith(dirs, normalizePath(Text(realParentPath.path)))
             THEN Throw("Access denied - parent directory outside allowed directories")
             ELSE Return(Append(realParentPath.path, absolute[Len(absolute)]))

\* the inner try block: realpath of the parent directory and the check of it
checkParent(f, dirs, absolute) ==
    LET realParentPath == realpath(f, dirname(absolute))
    IN  IF ~realParentPath.ok THEN Throw(realParentPath.err)
        ELSE IF ~someStartsWith(dirs, normalizePath(Text(realParentPath.path)))
             THEN Throw("Access denied - parent directory outside allowed directories")
             ELSE Return(absolute)

\* catch { throw new Error(`Parent directory does not exist: ...`) }: whatever
\* the inner try block threw is replaced
catchParent(attempt) ==
    IF attempt.ok THEN attempt ELSE Throw("Parent directory does not exist")

\* catch (error) { ... }: whatever the try block threw, the parent is tried
catchRealPath(f, dirs, absolute, attempt) ==
    IF attempt.ok THEN attempt ELSE catchParent(checkParent(f, dirs, absolute))

validatePath(f, dirs, requested) ==
    LET absolute == resolve(expandHome(requested))
        normalizedRequested == normalizePath(Text(absolute))
    IN  IF ~someStartsWith(dirs, normalizedRequested)
        THEN Throw("Access denied - path outside allowed directories")
        ELSE catchRealPath(f, dirs, absolute, checkRealPath(f, dirs, absolute))

AccessDeniedMessages ==
    { "Access denied - path outside allowed directories",
      "Access denied - symlink target outside allowed directories",
      "Access denied - parent directory outside allowed directories" }
IsAccessDenied(res) == ~res.ok /\ res.err \in AccessDeniedMessages
IsParentNotFound(res) == ~res.ok /\ res.err = "Parent directory does not exist"

(***************************************************************************)
(* findRange: the regular expression                                       *)
(*     escapeRegExp(beforeText) + '(.*?)' + escapeRegExp(afterText)        *)
(* with flag 's', and String.prototype.match on it.                        *)
(***************************************************************************)
\* the characters escapeRegExp escapes: . * + ? ^ $ { } ( ) | [ ] \
MetaChars ==
    { ".", "*", "+", "?", "^", "$", "{", "}", "(", ")", "|", "[", "]", "\\" }

\* escapeRegExp that leaves the string as it is
escapeRegExp_Identity(string) == string

RECURSIVE escapeRegExp(_)
escapeRegExp(string) ==
    IF string = <<>> THEN <<>>
    ELSE (IF Head(string) \in MetaChars THEN <<"\\", Head(string)>> ELSE <<Head(string)>>)
         \o escapeRegExp(Tail(string))

\* the pattern with a greedy group where the code has the lazy one
fullPattern_Greedy(range) ==
    escapeRegExp(range.beforeText) \o <<"(", ".", "*", ")">> \o escapeRegExp(range.afterText)

fullPattern(range) ==
    escapeRegExp(range.beforeText) \o <<"(", ".", "*", "?", ")">> \o escapeRegExp(range.afterText)

\* new RegExp(pattern, flags): the pattern as a sequence of atoms.  An escaped
\* character is that character; an unescaped "." is any character; "(.*?)" and
\* "(.*)" are the lazy and the greedy run of any characters.
RECURSIVE RegExpFrom(_, _)
RegExpFrom(pattern, i) ==
    IF i > Len(pattern) THEN <<>>
    ELSE IF pattern[i] = "\\" /\ i < Len(pattern)
         THEN <<[k |-> "lit", c |-> pattern[i + 1]]>> \o RegExpFrom(pattern, i + 2)
    ELSE IF i + 4 <= Len(pattern) /\ SubSeq(pattern, i, i + 4) = <<"(", ".", "*", "?", ")">>
         THEN <<[k |-> "lazy", c |-> ""]>> \o RegExpFrom(pattern, i + 5)
    ELSE IF i + 3 <= Len(pattern) /\ SubSeq(pattern, i, i + 3) = <<"(", ".", "*", ")">>
         THEN <<[k |-> "greedy", c |-> ""]>> \o RegExpFrom(pattern, i + 4)
    ELSE IF pattern[i] = "."
         THEN <<[k |-> "any", c |-> ""]>> \o RegExpFrom(pattern, i + 1)
    ELSE <<[k |-> "lit", c |-> pattern[i]]>> \o RegExpFrom(pattern, i + 1)
RegExp(pattern, flags) == [atoms |-> RegExpFrom(pattern, 1), dotAll |-> "s" \in flags]

\* what "." matches: every character with flag s, every character but a line
\* terminator without
DotMatches(regex, c) == regex.dotAll \/ c \notin {"\n", "\r"}

\* the backtracking matcher: the end offset of the first match of the atoms
\* from k on at offset pos, in the order the engine tries them, or -1
RECURSIVE MatchAt(_, _, _, _)
MatchAt(regex, k, content, pos) ==
    IF k > Len(regex.atoms) THEN pos
    ELSE LET atom == regex.atoms[k]
             more == pos < Len(content) /\ DotMatches(regex, content[pos + 1])
         IN  CASE atom.k = "lit" ->
                    IF pos < Len(content) /\ content[pos + 1] = atom.c
                    THEN MatchAt(regex, k + 1, content, pos + 1)
                    ELSE -1
               [] atom.k = "any" ->
                    IF more THEN MatchAt(regex, k + 1, content, pos + 1) ELSE -1
               [] atom.k = "lazy" ->
                    LET now == MatchAt(regex, k + 1, content, pos)
                    IN  IF now # -1 THEN now
                        ELSE IF more THEN MatchAt(regex, k, content, pos + 1) ELSE -1
               [] atom.k = "greedy" ->
                    LET later == IF more THEN MatchAt(regex, k, content, pos + 1) ELSE -1
                    IN  IF later # -1 THEN later
                        ELSE MatchAt(regex, k + 1, content, pos)

\* content.match(regex) without the g flag: the leftmost offset with a match;
\* index and length of match[0], or null
RECURSIVE matchFrom(_, _, _)
matchFrom(content, regex, index) ==
    IF index > Len(content) THEN [match |-> FALSE, index |-> 0, length |-> 0]
    ELSE LET e == MatchAt(regex, 1, content, index)
         IN  IF e # -1 THEN [match |-> TRUE, index |-> index, length |-> e - index]
             ELSE matchFrom(content, regex, index + 1)
match(content, regex) == matchFrom(content, regex, 0)

\* a findRange result: null, or the pair [start, end]
Null == [found |-> FALSE, start |-> 0, end |-> 0]
Range(start, end) == [found |-> TRUE, start |-> start, end |-> end]

findRange(content, range) ==
    LET regex == RegExp(fullPattern(range), {"s"})
        m == match(content, regex)
    IN  IF ~m.match THEN Null
        ELSE Range(m.index + Len(range.beforeText),
                   m.index + m.length - Len(range.afterText))

(***************************************************************************)
(* replaceByPattern: new RegExp(pattern, flags) on a pattern and flags the *)
(* caller supplies, and String.prototype.replace on it.  The patterns are  *)
(* sequences of literal characters, escaped characters and ".", and the    *)
(* malformed ones RegExp rejects; an absent flags argument is "".          *)
(***************************************************************************)
Chars(s) == { s[i] : i \in 1..Len(s) }

\* the flags RegExp knows: each at most once, u and v not together
FlagChars == { "d", "g", "i", "m", "s", "u", "v", "y" }
flagsValid(flags) ==
    /\ \A i \in 1..Len(flags) :
          /\ flags[i] \in FlagChars
          /\ \A j \in 1..Len(flags) : i # j => flags[i] # flags[j]
    /\ ~({"u", "v"} \subseteq Chars(flags))

\* whether the pattern parses: a backslash escapes a character, every "(" has
\* its ")", a "[" has its "]", "*", "+", "?" follow something to repeat, and
\* a "?" may follow one of them; last is what stands before offset i
Quantifiers == { "*", "+", "?" }
RECURSIVE patternValidFrom(_, _, _, _)
patternValidFrom(pattern, i, depth, last) ==
    IF i > Len(pattern) THEN depth = 0
    ELSE CASE pattern[i] = "\\" ->
                i < Len(pattern) /\ patternValidFrom(pattern, i + 2, depth, "atom")
           [] pattern[i] = "(" -> patternValidFrom(pattern, i + 1, depth + 1, "open")
           [] pattern[i] = ")" ->
                depth > 0 /\ patternValidFrom(pattern, i + 1, depth - 1, "atom")
           [] pattern[i] = "[" ->
                \E j \in (i + 1)..Len(pattern) :
                   /\ pattern[j] = "]"
                   /\ \A k \in (i + 1)..(j - 1) : pattern[k] # "]"
                   /\ patternValidFrom(pattern, j + 1, depth, "atom")
           [] pattern[i] \in Quantifiers ->
                IF last = "atom" THEN patternValidFrom(pattern, i + 1, depth, "quantifier")
                ELSE /\ last = "quantifier"
                     /\ pattern[i] = "?"
                     /\ patternValidFrom(pattern, i + 1, depth, "lazy")
           [] OTHER -> patternValidFrom(pattern, i + 1, depth, "atom")
patternValid(pattern) == patternValidFrom(pattern, 1, 0, "open")

\* Canonicalize of the matcher: with flag i the upper-case form of the character
UpperChar(c) ==
    CASE c = "a" -> "A"
      [] c = "b" -> "B"
      [] OTHER   -> c
Canonicalize(ignoreCase, s) ==
    IF ignoreCase THEN [i \in 1..Len(s) |-> UpperChar(s[i])] ELSE s

\* the atoms compared in canonical form when the flags have i
CanonicalAtoms(ignoreCase, atoms) ==
    IF ignoreCase THEN [k \in 1..Len(atoms) |-> [atoms[k] EXCEPT !.c = UpperChar(@)]]
    ELSE atoms

NoRegExp ==
    [atoms |-> <<>>, dotAll |-> FALSE, ignoreCase |-> FALSE, global |-> FALSE,
     sticky |-> FALSE, lastIndex |-> 0]

\* new RegExp(pattern, flags): the flags are checked, then the pattern is parsed;
\* either throws a SyntaxError.  The object made has lastIndex 0.
newRegExp(pattern, flags) ==
    IF ~flagsValid(flags)
    THEN [ok |-> FALSE, regex |-> NoRegExp,
          err |-> <<"Invalid flags supplied to RegExp constructor '", flags, "'">>]
    ELSE IF ~patternValid(pattern)
    THEN [ok |-> FALSE, regex |-> NoRegExp,
          err |-> <<"Invalid regular expression: /", pattern, "/">>]
    ELSE [ok |-> TRUE, err |-> <<>>,
          regex |-> [atoms |-> CanonicalAtoms("i" \in Chars(flags), RegExpFrom(pattern, 1)),
                     dotAll |-> "s" \in Chars(flags),
                     ignoreCase |-> "i" \in Chars(flags),
                     global |-> "g" \in Chars(flags),
                     sticky |-> "y" \in Chars(flags),
                     lastIndex |-> 0]]

NoMatch == [match |-> FALSE, index |-> 0, length |-> 0]

\* RegExpBuiltinExec from lastIndex: the first offset from lastIndex on with a
\* match; with flag y the offset lastIndex and no other
RECURSIVE exec(_, _, _)
exec(regex, S, lastIndex) ==
    IF lastIndex > Len(S) THEN NoMatch
    ELSE LET e == MatchAt(regex, 1, Canonicalize(regex.ignoreCase, S), lastIndex)
         IN  IF e # -1 THEN [match |-> TRUE, index |-> lastIndex, length |-> e - lastIndex]
             ELSE IF regex.sticky THEN NoMatch
             ELSE exec(regex, S, lastIndex + 1)

\* the collection that stops after the first match whatever the flags
results_FirstOnly(regex, S, lastIndex) ==
    LET result == exec(regex, S, lastIndex)
    IN  IF ~result.match THEN <<>> ELSE <<result>>

\* the matches RegExp.prototype[Symbol.replace] collects: one without flag g;
\* with it, exec repeated from the end of the match before, one further on
\* after an empty match, until it fails
RECURSIVE results(_, _, _)
results(regex, S, lastIndex) ==
    LET result == exec(regex, S, lastIndex)
    IN  IF ~result.match THEN <<>>
        ELSE IF ~regex.global THEN <<result>>
        ELSE <<result>>
             \o results(regex, S,
                        IF result.length = 0 THEN result.index + 1
                        ELSE result.index + result.length)

\* GetSubstitution for a pattern without capture groups: $$ is "$", $& the
\* match, $` the text before it, $' the text after it; any other "$" stands
\* for itself
RECURSIVE GetSubstitution(_, _, _, _)
GetSubstitution(matched, S, position, replacement) ==
    IF replacement = <<>> THEN <<>>
    ELSE IF Head(replacement) = "$" /\ Len(replacement) >= 2
         THEN LET rest == SubSeq(replacement, 3, Len(replacement))
              IN  CASE replacement[2] = "$" ->
                         <<"$">> \o GetSubstitution(matched, S, position, rest)
                    [] replacement[2] = "&" ->
                         matched \o GetSubstitution(matched, S, position, rest)
                    [] replacement[2] = "`" ->
                         substring(S, 0, position)
                           \o GetSubstitution(matched, S, position, rest)
                    [] replacement[2] = "'" ->
                         substringFrom(S, position + Len(matched))
                           \o GetSubstitution(matched, S, position, rest)
                    [] OTHER ->
                         <<"$">> \o GetSubstitution(matched, S, position, Tail(replacement))
         ELSE <<Head(replacement)>> \o GetSubstitution(matched, S, position, Tail(replacement))

\* the accumulated result: the text between the matches as it is, each match
\* its substitution, the text after the last match as it is
RECURSIVE accumulate(_, _, _, _, _)
accumulate(S, collected, k, nextSourcePosition, replacement) ==
    IF k > Len(collected) THEN substringFrom(S, nextSourcePosition)
    ELSE LET result == collected[k]
             matched == substring(S, result.index, result.index + result.length)
         IN  IF result.index >= nextSourcePosition
             THEN substring(S, nextSourcePosition, result.index)
                    \o GetSubstitution(matched, S, result.index, replacement)
                    \o accumulate(S, collected, k + 1, result.index + result.length,
                                  replacement)
             ELSE accumulate(S, collected, k + 1, nextSourcePosition, replacement)

\* content.replace(regex, replacement)
replace(S, regex, replacement) ==
    accumulate(S, results(regex, S, 0), 1, 0, replacement)

(***************************************************************************)
(* SpecPath: validatePath called on a filesystem with symbolic links.      *)
(***************************************************************************)
\* the directory tree: /r with a file and one symbolic link, its namesakes
\* /rx and /R, and /o; the link /r/l points to linkTarget
Tree(linkTarget, content) ==
    ( << <<"r">> >> :> Dir
   @@ << <<"r">>, <<"f">> >> :> File(content)
   @@ << <<"r">>, <<"l">> >> :> Link(linkTarget)
   @@ << <<"r", "x">> >> :> Dir
   @@ << <<"r", "x">>, <<"f">> >> :> File(<<"x">>)
   @@ << <<"R">> >> :> Dir
   @@ << <<"R">>, <<"f">> >> :> File(<<"R">>)
   @@ << <<"o">> >> :> Dir
   @@ << <<"o">>, <<"f">> >> :> File(<<"o">>) )

\* where the link may point: a file outside, a file inside, a directory
\* outside, a name that does not exist yet, itself
LinkTargets ==
    { << <<"o">>, <<"f">> >>,
      << <<"r">>, <<"f">> >>,
      << <<"o">> >>,
      << <<"o">>, <<"n">> >>,
      << <<"r">>, <<"l">> >> }

\* the directory lists the server may be started with; each exists and is a directory
RootArgSets ==
    { << <<"/", "r">> >>,
      << <<"/", "R">> >>,
      << <<"/", "o">> >>,
      << <<"/", "r", "x">> >>,
      << <<"/", "r">>, <<"/", "o">> >>,
      << <<"~">> >> }

SegNames ==
    { <<"r">>, <<"R">>, <<"r", "x">>, <<"o">>, <<"f">>, <<"l">>, <<"n">>, <<".", ".">> }

\* absolute requests of up to MaxSegs segments, and relative, home, doubled
\* and trailing separator variants
Requests ==
    { Text(segs) : segs \in SeqsUpTo(SegNames, MaxSegs) \ {<<>>} }
    \cup { <<"~">>, <<"~", "/", "f">>, <<"~", "/", "l">>, <<"~", "f">>,
           <<"f">>, <<".", ".", "/", "r", "/", "f">>, <<".", "/", "n">>,
           <<"/", "r", "/", "/", "f">>, <<"/", "r", "/", "l", "/">>,
           <<"/", "/", "r", "x", "/", ".", "/", "f">>, <<"/", "R", "/", "F">> }

NotCalled == [ok |-> FALSE, path |-> <<>>, err |-> "not called"]
RangeNotCalled == [found |-> FALSE, start |-> -1, end |-> -1]
NoCall == [name |-> "", arguments |-> <<>>]
NoResponse == [content |-> <<>>, isError |-> "unset"]

PathDefaults ==
    /\ requestedPath = <<>>
    /\ validated = NotCalled

RangeDefaults ==
    /\ rangeArgs = [content |-> <<>>, beforeText |-> <<>>, afterText |-> <<>>]
    /\ rangeResult = RangeNotCalled

OpsDefaults ==
    /\ call = NoCall
    /\ response = NoResponse
    /\ before0 = <<>>
    /\ calls = 0
    /\ events = <<>>

RaceDefaults ==
    /\ tasks = <<>>
    /\ log = <<>>

InitPath ==
    /\ \E target \in LinkTargets : fs = Tree(target, <<"X">>)
    /\ rootArgs \in RootArgSets
    /\ requestedPath \in Requests
    /\ validated = NotCalled
    /\ RangeDefaults
    /\ OpsDefaults
    /\ RaceDefaults

ValidatePathCall ==
    /\ validated = NotCalled
    /\ validated' = validatePath(fs, allowedDirectories(rootArgs), requestedPath)
    /\ UNCHANGED <<fs, rootArgs, requestedPath, rangeVars, opVars, raceVars>>

NextPath == ValidatePathCall

SpecPath == InitPath /\ [][NextPath]_vars

(***************************************************************************)
(* Properties of validatePath (SpecPath).                                  *)
(***************************************************************************)
Called == validated # NotCalled

\* the directories the server was started with, as directories of the filesystem
RootDirs == { resolve(expandHome(rootArgs[i])) : i \in 1..Len(rootArgs) }

\* p is root or below it, segment by segment, letter case kept
Inside(p, root) == Len(root) <= Len(p) /\ SubSeq(p, 1, Len(root)) = root
InsideSomeRoot(p) == \E root \in RootDirs : Inside(p, root)

Absolute == resolve(expandHome(requestedPath))
RealOfRequest == realpath(fs, Absolute)
RealOfParent == realpath(fs, dirname(Absolute))

\* the canonical real form of the request: its real path, or for a target that
\* does not exist the real path of its parent followed by its name
HasRealForm == RealOfRequest.ok \/ (Absolute # <<>> /\ RealOfParent.ok)
RealForm ==
    IF RealOfRequest.ok THEN RealOfRequest.path
    ELSE Append(RealOfParent.path, Absolute[Len(Absolute)])

PassedLexicalCheck ==
    Called /\ validated.err # "Access denied - path outside allowed directories"

\* C1: a request whose canonical real form is outside every allowed root fails
\* with an access-denied error, whatever its literal text looks like.
C1_SandboxSoundness ==
    (Called /\ HasRealForm /\ ~InsideSomeRoot(RealForm)) => IsAccessDenied(validated)

\* C2: a request that is lexically inside an allowed root, exists, and resolves
\* through a symbolic link to a real path outside every root fails with an
\* access-denied error.
C2_SymlinkEscapeRejected ==
    ( /\ Called
      /\ InsideSomeRoot(Absolute)
      /\ RealOfRequest.ok
      /\ RealOfRequest.path # Absolute
      /\ ~InsideSomeRoot(RealOfRequest.path) )
    => IsAccessDenied(validated)

\* C3: the lexical check lets a normalized path through only if it equals an
\* allowed root or continues one after a path separator.
C3_WholeSegmentMatch ==
    PassedLexicalCheck =>
        \E i \in 1..Len(rootArgs) :
            LET dir == allowedDirectories(rootArgs)[i]
                normalizedRequested == normalizePath(Text(Absolute))
            IN  \/ normalizedRequested = dir
                \/ startsWith(normalizedRequested,
                              IF dir = <<"/">> THEN dir ELSE Append(dir, "/"))

\* C4: a symbolic link inside an allowed root whose real target is inside an
\* allowed root is accepted, and the real path is what is returned.
C4_InsideSymlinkResolved ==
    ( /\ Called
      /\ InsideSomeRoot(Absolute)
      /\ RealOfRequest.ok
      /\ RealOfRequest.path # Absolute
      /\ InsideSomeRoot(RealOfRequest.path) )
    => validated = Return(RealOfRequest.path)

C4_Witness ==
    /\ Called
    /\ InsideSomeRoot(Absolute)
    /\ RealOfRequest.ok
    /\ RealOfRequest.path # Absolute
    /\ InsideSomeRoot(RealOfRequest.path)
    /\ validated.ok
    /\ validated.path # Absolute

\* C5: for a target that does not exist, a parent that exists with its real
\* path outside every root gives access denied, and parent-not-found is given
\* only when the parent does not exist.
C5_ParentErrorsDistinguished ==
    ( /\ Called
      /\ InsideSomeRoot(Absolute)
      /\ ~RealOfRequest.ok
      /\ RealOfRequest.err = "ENOENT" )
    => /\ (RealOfParent.ok /\ ~InsideSomeRoot(RealOfParent.path))
              => IsAccessDenied(validated)
       /\ IsParentNotFound(validated) => ~RealOfParent.ok

\* the containment check without the case folding: the path as resolved
\* against the roots as given
CaseSensitiveAllowed(p) ==
    \E i \in 1..Len(rootArgs) :
        startsWith(normalize(Text(p)),
                   normalize(Text(resolve(expandHome(rootArgs[i])))))

\* C6: lowercasing the path and the roots never lets validatePath accept a
\* path that the case-sensitive comparison against the roots rejects.
C6_CaseFoldConservative ==
    (Called /\ validated.ok) => CaseSensitiveAllowed(Absolute)

(***************************************************************************)
(* SpecRange: findRange called on a content and a marker pair.             *)
(***************************************************************************)
Alphabet == {"X", "Y", "."}

\* contents with line breaks between and around the markers, and the
\* content of the leftmost-shortest example
LineContents ==
    { <<"X", "\n", "Y">>, <<"X", "\r", "\n", "Y">>, <<"\n", "X", ".", "\n", "Y">>,
      <<"X", "1", "2", "3", "Y", "4", "5", "6", "Y">> }

Contents == SeqsUpTo(Alphabet, MaxContentLen) \cup LineContents
Markers == SeqsUpTo(Alphabet, MaxMarkerLen) \cup { <<"\n">> }

InitRange ==
    /\ rangeArgs \in [content : Contents, beforeText : Markers, afterText : Markers]
    /\ rangeResult = RangeNotCalled
    /\ fs = Tree(<< <<"r">>, <<"f">> >>, <<"X">>)
    /\ rootArgs = << <<"/", "r">> >>
    /\ PathDefaults
    /\ OpsDefaults
    /\ RaceDefaults

FindRangeCall ==
    /\ rangeResult = RangeNotCalled
    /\ rangeResult' = findRange(rangeArgs.content,
                                [beforeText |-> rangeArgs.beforeText,
                                 afterText |-> rangeArgs.afterText])
    /\ UNCHANGED <<fs, rootArgs, pathVars, rangeArgs, opVars, raceVars>>

NextRange == FindRangeCall

SpecRange == InitRange /\ [][NextRange]_vars

(***************************************************************************)
(* Properties of findRange (SpecRange).                                    *)
(***************************************************************************)
RangeCalled == rangeResult # RangeNotCalled

\* whether needle stands in s at offset i (0-based)
OccursAt(s, needle, i) ==
    /\ i + Len(needle) <= Len(s)
    /\ SubSeq(s, i + 1, i + Len(needle)) = needle

\* the literal scan: the first offset at or after from where needle stands, or -1
IndexOf(s, needle, from) ==
    LET hits == { i \in from..Len(s) : OccursAt(s, needle, i) }
    IN  IF hits = {} THEN -1 ELSE CHOOSE i \in hits : \A j \in hits : i <= j

\* the two-pass scan: first beforeText, then the first afterText at or after its end
TwoPass(content, beforeText, afterText) ==
    LET b == IndexOf(content, beforeText, 0)
        start == b + Len(beforeText)
        e == IF b = -1 THEN -1 ELSE IndexOf(content, afterText, start)
    IN  IF b = -1 \/ e = -1 THEN Null ELSE Range(start, e)

\* C7: findRange agrees with the two-pass literal scan; a span it returns lies
\* within the content, holds neither marker's matched occurrence, and for
\* "X123Y456Y" with X and Y it is "123".
C7_AgreesWithTwoPassScan ==
    RangeCalled =>
        LET content == rangeArgs.content
            beforeText == rangeArgs.beforeText
            afterText == rangeArgs.afterText
        IN  /\ rangeResult = TwoPass(content, beforeText, afterText)
            /\ rangeResult.found =>
                 /\ 0 <= rangeResult.start
                 /\ rangeResult.start <= rangeResult.end
                 /\ rangeResult.end <= Len(content)
                 /\ OccursAt(content, beforeText, rangeResult.start - Len(beforeText))
                 /\ OccursAt(content, afterText, rangeResult.end)
            /\ ( /\ content = <<"X", "1", "2", "3", "Y", "4", "5", "6", "Y">>
                 /\ beforeText = <<"X">>
                 /\ afterText = <<"Y">> )
               => /\ rangeResult.found
                  /\ substring(content, rangeResult.start, rangeResult.end)
                       = <<"1", "2", "3">>

\* a marker with a pattern metacharacter, found, after an earlier position
\* the unescaped pattern would have matched
C7_Witness ==
    /\ RangeCalled
    /\ rangeResult.found
    /\ rangeArgs.beforeText = <<".">>
    /\ rangeArgs.afterText = <<"Y">>
    /\ rangeResult.start > 1
    /\ rangeResult.end > rangeResult.start

\* C8: empty markers are legal: an empty beforeText starts the span at 0 and
\* ends it at the first afterText; an empty afterText gives the empty span
\* right after the first beforeText; both empty give [0, 0]; null is returned
\* only when the marker that is not empty is absent.
C8_EmptyMarkers ==
    RangeCalled =>
        LET content == rangeArgs.content
            beforeText == rangeArgs.beforeText
            afterText == rangeArgs.afterText
            firstBefore == IndexOf(content, beforeText, 0)
            firstAfter == IndexOf(content, afterText, 0)
        IN  /\ (beforeText = <<>> /\ afterText # <<>>) =>
                 rangeResult = IF firstAfter = -1 THEN Null ELSE Range(0, firstAfter)
            /\ (afterText = <<>> /\ beforeText # <<>>) =>
                 rangeResult = IF firstBefore = -1 THEN Null
                               ELSE Range(firstBefore + Len(beforeText),
                                          firstBefore + Len(beforeText))
            /\ (beforeText = <<>> /\ afterText = <<>>) => rangeResult = Range(0, 0)

\* an empty afterText on a content that goes on after beforeText
C8_Witness ==
    /\ RangeCalled
    /\ rangeArgs.afterText = <<>>
    /\ rangeArgs.beforeText # <<>>
    /\ rangeResult.found
    /\ rangeResult.end < Len(rangeArgs.content)

(***************************************************************************)
(* File reads and writes (fs/promises).  Both follow symbolic links; a     *)
(* write creates the file when the last component, or the target of a      *)
(* link that stands there, does not exist.                                 *)
(***************************************************************************)
FsError(code) == [ok |-> FALSE, err |-> code, data |-> <<>>, path |-> <<>>]

\* fs.readFile(path, 'utf-8')
readFile(f, p) ==
    LET real == realpath(f, p)
    IN  IF ~real.ok THEN FsError(real.err)
        ELSE IF real.path = <<>> \/ f[real.path].t = "dir" THEN FsError("EISDIR")
        ELSE [ok |-> TRUE, err |-> "", data |-> f[real.path].c, path |-> real.path]

\* the file an open for writing of p reaches
RECURSIVE Landing(_, _, _)
Landing(f, p, fuel) ==
    IF p = <<>> THEN FsError("EISDIR")
    ELSE LET parent == realpath(f, dirname(p))
         IN  IF ~parent.ok THEN FsError(parent.err)
             ELSE IF parent.path # <<>> /\ f[parent.path].t # "dir" THEN FsError("ENOTDIR")
             ELSE LET q == Append(parent.path, p[Len(p)])
                  IN  IF q \notin DOMAIN f \/ f[q].t = "file"
                      THEN [ok |-> TRUE, err |-> "", data |-> <<>>, path |-> q]
                      ELSE IF f[q].t = "dir" THEN FsError("EISDIR")
                      ELSE IF fuel = 0 THEN FsError("ELOOP")
                      ELSE Landing(f, f[q].to, fuel - 1)

\* whether the open for writing of the file at q is permitted: the mode of
\* the file when it exists, of its directory when it has to be created
Writable(f, q) ==
    IF q \in DOMAIN f THEN f[q].w
    ELSE LET d == SubSeq(q, 1, Len(q) - 1) IN d = <<>> \/ f[d].w

\* fs.writeFile(path, data, 'utf-8'): the filesystem after it, or the error
writeFile(f, p, data) ==
    LET at == Landing(f, p, MaxLinks)
    IN  IF ~at.ok THEN [ok |-> FALSE, err |-> at.err, fs |-> f]
        ELSE IF ~Writable(f, at.path) THEN [ok |-> FALSE, err |-> "EACCES", fs |-> f]
        ELSE [ok |-> TRUE, err |-> "", fs |-> (at.path :> File(data)) @@ f]

\* fs.appendFile(path, data, 'utf-8'): as writeFile, the data put after the
\* content the file has
appendFile(f, p, data) ==
    LET at == Landing(f, p, MaxLinks)
    IN  IF ~at.ok THEN [ok |-> FALSE, err |-> at.err, fs |-> f]
        ELSE IF ~Writable(f, at.path) THEN [ok |-> FALSE, err |-> "EACCES", fs |-> f]
        ELSE [ok |-> TRUE, err |-> "",
              fs |-> (at.path :> File((IF at.path \in DOMAIN f THEN f[at.path].c ELSE <<>>)
                                        \o data)) @@ f]

\* whether the entry at q is p or lies below p
Below(p, q) == Len(q) >= Len(p) /\ SubSeq(q, 1, Len(p)) = p

\* fs.rename(oldPath, newPath): the last components of the two paths are not
\* followed; the entry, with what lies below it, takes the new name and
\* replaces the file that has it
rename(f, oldPath, newPath) ==
    LET from == realpath(f, dirname(oldPath))
        to == realpath(f, dirname(newPath))
        refuse(code) == [ok |-> FALSE, err |-> code, fs |-> f]
    IN  IF oldPath = <<>> \/ newPath = <<>> THEN refuse("EBUSY")
        ELSE IF ~from.ok THEN refuse(from.err)
        ELSE IF ~to.ok THEN refuse(to.err)
        ELSE LET old == Append(from.path, oldPath[Len(oldPath)])
                 new == Append(to.path, newPath[Len(newPath)])
             IN  IF old \notin DOMAIN f THEN refuse("ENOENT")
                 ELSE IF to.path # <<>> /\ f[to.path].t # "dir" THEN refuse("ENOTDIR")
                 ELSE IF old = new THEN [ok |-> TRUE, err |-> "", fs |-> f]
                 ELSE IF f[old].t = "dir" /\ Below(old, new) THEN refuse("EINVAL")
                 ELSE IF new \in DOMAIN f /\ f[new].t = "dir" /\ f[old].t # "dir"
                      THEN refuse("EISDIR")
                 ELSE IF new \in DOMAIN f /\ f[new].t # "dir" /\ f[old].t = "dir"
                      THEN refuse("ENOTDIR")
                 ELSE IF \E q \in DOMAIN f : q # new /\ Below(new, q)
                      THEN refuse("ENOTEMPTY")
                 ELSE IF ~(from.path = <<>> \/ f[from.path].w)
                         \/ ~(to.path = <<>> \/ f[to.path].w)
                      THEN refuse("EACCES")
                 ELSE LET moved == { q \in DOMAIN f : Below(old, q) }
                          kept == (DOMAIN f \ moved) \ {new}
                          named(q) == new \o SubSeq(q, Len(old) + 1, Len(q))
                      IN  [ok |-> TRUE, err |-> "",
                           fs |-> [q \in kept \cup { named(m) : m \in moved } |->
                                     IF q \in kept THEN f[q]
                                     ELSE f[CHOOSE m \in moved : named(m) = q]]]

(***************************************************************************)
(* The tool operations.  An invocation carries the filesystem as it has    *)
(* left it so far, its arguments, its local constants and, once it has     *)
(* thrown, the message of the Error; a statement after a throw is not      *)
(* executed.  trace lists the calls it has made: the schema check, and     *)
(* each validatePath, filesystem and findRange call with its path.         *)
(***************************************************************************)
Begin(f, args) ==
    [fs |-> f, args |-> args, thrown |-> FALSE, text |-> <<>>,
     validPath |-> <<>>, validSourcePath |-> <<>>, validTargetPath |-> <<>>,
     validDestPath |-> <<>>,
     content |-> <<>>, range |-> Null, position |-> Null, regex |-> NoRegExp,
     trace |-> <<>>]

Did(inv, op, path) == [inv EXCEPT !.trace = Append(@, [op |-> op, path |-> path])]

Fail(inv, message) == [inv EXCEPT !.thrown = TRUE, !.text = message]

\* Schema.safeParse(args); if (!parsed.success) throw
safeParse(inv, name) ==
    IF inv.args.wellFormed THEN Did(inv, "safeParse", <<>>)
    ELSE Fail(Did(inv, "safeParse", <<>>), <<"Invalid arguments for ", name>>)

\* the path resolved and used whatever validatePath says of it
validate_Unchecked(inv, dirs, arg, lcl) ==
    IF inv.thrown THEN inv
    ELSE [Did(inv, "validatePath", inv.args[arg])
            EXCEPT ![lcl] = resolve(expandHome(inv.args[arg]))]

\* const <local> = await validatePath(parsed.data.<arg>, allowedDirectories)
validate(inv, dirs, arg, lcl) ==
    IF inv.thrown THEN inv
    ELSE LET valid == validatePath(inv.fs, dirs, inv.args[arg])
             called == Did(inv, "validatePath", inv.args[arg])
         IN  IF valid.ok THEN [called EXCEPT ![lcl] = valid.path]
             ELSE Fail(called, <<valid.err>>)

\* const content = await fs.readFile(<local>, 'utf-8')
read(inv, lcl) ==
    IF inv.thrown THEN inv
    ELSE LET file == readFile(inv.fs, inv[lcl])
             called == Did(inv, "readFile", inv[lcl])
         IN  IF file.ok THEN [called EXCEPT !.content = file.data]
             ELSE Fail(called, <<file.err>>)

\* the range resolved without the check for null: the empty span at the start
\* of the content stands in for a range that was not found
resolveRange_Unchecked(inv, message) ==
    IF inv.thrown THEN inv
    ELSE LET range == findRange(inv.content, inv.args.range)
             called == Did(inv, "findRange", <<>>)
         IN  IF range.found THEN [called EXCEPT !.range = range]
             ELSE [called EXCEPT !.range = Range(0, 0)]

\* const range = await findRange(content, parsed.data.range); if (!range) throw
resolveRange(inv, message) ==
    IF inv.thrown THEN inv
    ELSE LET range == findRange(inv.content, inv.args.range)
             called == Did(inv, "findRange", <<>>)
         IN  IF range.found THEN [called EXCEPT !.range = range]
             ELSE Fail(called, <<message>>)

\* const position = await findRange(content, parsed.data.position); if (!position) throw
resolvePosition(inv, message) ==
    IF inv.thrown THEN inv
    ELSE LET position == findRange(inv.content, inv.args.position)
             called == Did(inv, "findRange", <<>>)
         IN  IF position.found THEN [called EXCEPT !.position = position]
             ELSE Fail(called, <<message>>)

\* await fs.writeFile(<local>, data, 'utf-8')
write(inv, lcl, data) ==
    IF inv.thrown THEN inv
    ELSE LET written == writeFile(inv.fs, inv[lcl], data)
             called == Did(inv, "writeFile", inv[lcl])
         IN  IF written.ok THEN [called EXCEPT !.fs = written.fs]
             ELSE Fail(called, <<written.err>>)

\* await fs.appendFile(<local>, data, 'utf-8')
append(inv, lcl, data) ==
    IF inv.thrown THEN inv
    ELSE LET written == appendFile(inv.fs, inv[lcl], data)
             called == Did(inv, "appendFile", inv[lcl])
         IN  IF written.ok THEN [called EXCEPT !.fs = written.fs]
             ELSE Fail(called, <<written.err>>)

\* await fs.rename(<from>, <to>)
move(inv, from, to) ==
    IF inv.thrown THEN inv
    ELSE LET renamed == rename(inv.fs, inv[from], inv[to])
             called == Did(inv, "rename", inv[from])
         IN  IF renamed.ok THEN [called EXCEPT !.fs = renamed.fs]
             ELSE Fail(called, <<renamed.err>>)

\* return { content: [{ type: "text", text: ... }] }
return(inv, text) ==
    IF inv.thrown THEN inv ELSE [inv EXCEPT !.text = text]

\* replaceBlock's new content with the span kept and the text put before it
spliceReplace_KeepsSpan(content, range, text) ==
    substring(content, 0, range.start) \o text \o substringFrom(content, range.start)

\* content.substring(0, range[0]) + parsed.data.content + content.substring(range[1])
spliceReplace(content, range, text) ==
    substring(content, 0, range.start) \o text \o substringFrom(content, range.end)

\* content.substring(range[0], range[1])
extract(content, range) == substring(content, range.start, range.end)

\* the content with the span taken out, and the character after it
spliceRemove_PastEnd(content, range) ==
    substring(content, 0, range.start) \o substringFrom(content, range.end + 1)

\* content.substring(0, range[0]) + content.substring(range[1])
spliceRemove(content, range) ==
    substring(content, 0, range.start) \o substringFrom(content, range.end)

\* replaceBlock's write with the span replaced in the content the file has at
\* the time of the write
replaceBlockWrite_Reread(inv) ==
    write(inv, "validPath",
          spliceReplace(readFile(inv.fs, inv.validPath).data, inv.range, inv.args.content))

replaceBlockWrite(inv) ==
    write(inv, "validPath", spliceReplace(inv.content, inv.range, inv.args.content))

replaceBlock(f, dirs, args) ==
    return(
        replaceBlockWrite(
            resolveRange(
                read(
                    validate(safeParse(Begin(f, args), "replace_block"),
                             dirs, "path", "validPath"),
                    "validPath"),
                "Range not found")),
        <<"Successfully replaced content in ", args.path>>)

cutWriteTarget(inv) ==
    write(inv, "validTargetPath", extract(inv.content, inv.range))

cutWriteSource(inv) ==
    write(inv, "validSourcePath", spliceRemove(inv.content, inv.range))

cutToNewFile(f, dirs, args) ==
    return(
        cutWriteSource(
            cutWriteTarget(
                resolveRange(
                    read(
                        validate(
                            validate(safeParse(Begin(f, args), "cut_to_new_file"),
                                     dirs, "sourcePath", "validSourcePath"),
                            dirs, "targetPath", "validTargetPath"),
                        "validSourcePath"),
                    "Range not found in source file"))),
        <<"Successfully moved content to ", args.targetPath>>)

copyWriteTarget(inv) ==
    write(inv, "validTargetPath", extract(inv.content, inv.range))

copyToNewFile(f, dirs, args) ==
    return(
        copyWriteTarget(
            resolveRange(
                read(
                    validate(
                        validate(safeParse(Begin(f, args), "copy_to_new_file"),
                                 dirs, "sourcePath", "validSourcePath"),
                        dirs, "targetPath", "validTargetPath"),
                    "validSourcePath"),
                "Range not found in source file")),
        <<"Successfully copied content to ", args.targetPath>>)

\* appendToFile's append with the whole source content in place of the span
appendTarget_WholeContent(inv) ==
    append(inv, "validTargetPath", inv.content)

appendTarget(inv) ==
    append(inv, "validTargetPath", extract(inv.content, inv.range))

appendToFile(f, dirs, args) ==
    return(
        appendTarget(
            resolveRange(
                read(
                    validate(
                        validate(safeParse(Begin(f, args), "append_to_file"),
                                 dirs, "sourcePath", "validSourcePath"),
                        dirs, "targetPath", "validTargetPath"),
                    "validSourcePath"),
                "Range not found in source file")),
        <<"Successfully appended content to ", args.targetPath>>)

\* insertAtPosition's new content with the text put at the end of the span
spliceInsert_AtEnd(content, position, text) ==
    substring(content, 0, position.end) \o text \o substringFrom(content, position.end)

\* content.substring(0, position[0]) + parsed.data.content + content.substring(position[0])
spliceInsert(content, position, text) ==
    substring(content, 0, position.start) \o text \o substringFrom(content, position.start)

insertWrite(inv) ==
    write(inv, "validPath", spliceInsert(inv.content, inv.position, inv.args.content))

insertAtPosition(f, dirs, args) ==
    return(
        insertWrite(
            resolvePosition(
                read(
                    validate(safeParse(Begin(f, args), "insert_at_position"),
                             dirs, "path", "validPath"),
                    "validPath"),
                "Insert position not found")),
        <<"Successfully inserted content in ", args.path>>)

\* deleteRange's write with the span taken out of the content the file has
\* at the time of the write
deleteWrite_Reread(inv) ==
    write(inv, "validPath", spliceRemove(readFile(inv.fs, inv.validPath).data, inv.range))

deleteWrite(inv) ==
    write(inv, "validPath", spliceRemove(inv.content, inv.range))

deleteRange(f, dirs, args) ==
    return(
        deleteWrite(
            resolveRange(
                read(
                    validate(safeParse(Begin(f, args), "delete_range"),
                             dirs, "path", "validPath"),
                    "validPath"),
                "Range not found")),
        <<"Successfully deleted content from ", args.path>>)

moveFile(f, dirs, args) ==
    return(
        move(
            validate(
                validate(safeParse(Begin(f, args), "move_file"),
                         dirs, "source", "validSourcePath"),
                dirs, "destination", "validDestPath"),
            "validSourcePath", "validDestPath"),
        <<"Successfully moved ", args.source, " to ", args.destination>>)

\* a constructor that does not throw: the empty pattern stands in for one
\* that does not parse
construct_Unchecked(inv) ==
    IF inv.thrown THEN inv
    ELSE [inv EXCEPT !.regex = newRegExp(inv.args.pattern, inv.args.flags).regex]

\* const regex = new RegExp(parsed.data.pattern, parsed.data.flags)
construct(inv) ==
    IF inv.thrown THEN inv
    ELSE LET made == newRegExp(inv.args.pattern, inv.args.flags)
         IN  IF made.ok THEN [inv EXCEPT !.regex = made.regex]
             ELSE Fail(inv, made.err)

\* const newContent = content.replace(regex, parsed.data.replacement); writeFile
patternWrite(inv) ==
    write(inv, "validPath", replace(inv.content, inv.regex, inv.args.replacement))

replaceByPattern(f, dirs, args) ==
    return(
        patternWrite(
            construct(
                read(
                    validate(safeParse(Begin(f, args), "replace_by_pattern"),
                             dirs, "path", "validPath"),
                    "validPath"))),
        <<"Successfully replaced content in ", args.path>>)

\* switch (name): the operation of that name; default: throw
dispatch(f, dirs, name, args) ==
    CASE name = "replace_block" -> replaceBlock(f, dirs, args)
      [] name = "cut_to_new_file" -> cutToNewFile(f, dirs, args)
      [] name = "copy_to_new_file" -> copyToNewFile(f, dirs, args)
      [] name = "append_to_file" -> appendToFile(f, dirs, args)
      [] name = "insert_at_position" -> insertAtPosition(f, dirs, args)
      [] name = "delete_range" -> deleteRange(f, dirs, args)
      [] name = "move_file" -> moveFile(f, dirs, args)
      [] name = "replace_by_pattern" -> replaceByPattern(f, dirs, args)
      [] OTHER -> Fail(Begin(f, args), <<"Unknown tool: ", name>>)

\* a catch block that returns the message as an ordinary result
respond_Unflagged(inv) ==
    [fs |-> inv.fs,
     events |-> inv.trace,
     response |-> [content |-> <<[type |-> "text", text |-> inv.text]>>,
                   isError |-> "unset"]]

\* what the handler returns: the operation's result, or in the catch block
\* the text "Error: <message>" with isError
respond(inv) ==
    [fs |-> inv.fs,
     events |-> inv.trace,
     response |->
        IF inv.thrown
        THEN [content |-> <<[type |-> "text", text |-> <<"Error: ">> \o inv.text]>>,
              isError |-> "true"]
        ELSE [content |-> <<[type |-> "text", text |-> inv.text]>>,
              isError |-> "unset"]]

\* the CallToolRequestSchema handler
callTool(f, dirs, name, args) == respond(dispatch(f, dirs, name, args))

(***************************************************************************)
(* Spec: one tool call at a time on a file of any content.                 *)
(***************************************************************************)
FileAlphabet == {"X", "Y"}
\* files with line ends of both styles
LineFiles == { <<"\n">>, <<"X", "\n", "Y">>, <<"X", "\r", "\n", "Y">> }
FileContents == SeqsUpTo(FileAlphabet, MaxFileLen) \cup LineFiles
ArgMarkers == SeqsUpTo({"X"}, MaxArgMarkerLen) \cup { <<"Y">> }
Ranges == [beforeText : ArgMarkers, afterText : ArgMarkers]
NewContents == { <<>>, <<"Z">>, <<"\r", "\n">> }

\* the source file, a name that does not exist yet, the symbolic link, a
\* file outside the allowed directory, a name in a directory that does not exist
PathArgs ==
    { <<"/", "r", "/", "f">>, <<"/", "r", "/", "t">>, <<"/", "r", "/", "l">>,
      <<"/", "o", "/", "f">>, <<"/", "r", "/", "n", "/", "t">> }

NoRange == [beforeText |-> <<>>, afterText |-> <<>>]

Malformed ==
    [wellFormed |-> FALSE, path |-> <<>>, sourcePath |-> <<>>, targetPath |-> <<>>,
     range |-> NoRange, position |-> NoRange, content |-> <<>>,
     source |-> <<>>, destination |-> <<>>]

ReplaceBlockArgs ==
    [wellFormed : {TRUE}, path : PathArgs, sourcePath : {<<>>}, targetPath : {<<>>},
     range : Ranges, position : {NoRange}, content : NewContents,
     source : {<<>>}, destination : {<<>>}] \cup {Malformed}

InsertAtPositionArgs ==
    [wellFormed : {TRUE}, path : PathArgs, sourcePath : {<<>>}, targetPath : {<<>>},
     range : {NoRange}, position : Ranges, content : NewContents,
     source : {<<>>}, destination : {<<>>}] \cup {Malformed}

DeleteRangeArgs ==
    [wellFormed : {TRUE}, path : PathArgs, sourcePath : {<<>>}, targetPath : {<<>>},
     range : Ranges, position : {NoRange}, content : {<<>>},
     source : {<<>>}, destination : {<<>>}] \cup {Malformed}

CutToNewFileArgs ==
    [wellFormed : {TRUE}, path : {<<>>}, sourcePath : PathArgs, targetPath : PathArgs,
     range : Ranges, position : {NoRange}, content : {<<>>},
     source : {<<>>}, destination : {<<>>}] \cup {Malformed}

MoveFileArgs ==
    [wellFormed : {TRUE}, path : {<<>>}, sourcePath : {<<>>}, targetPath : {<<>>},
     range : {NoRange}, position : {NoRange}, content : {<<>>},
     source : PathArgs, destination : PathArgs] \cup {Malformed}

CopyToNewFileArgs == CutToNewFileArgs
AppendToFileArgs == CutToNewFileArgs

\* the names the switch has a case for, and one it has none for
ToolNames ==
    { "replace_block", "cut_to_new_file", "copy_to_new_file", "append_to_file",
      "insert_at_position", "delete_range", "move_file" }
UnknownNames == { "no_such_tool" }

\* the file the calls work on has any content, and a mode that lets the server
\* write it or not; the link points to a file outside or to that file
Init ==
    /\ \E target \in { << <<"o">>, <<"f">> >>, << <<"r">>, <<"f">> >> },
          content \in FileContents, readOnly \in BOOLEAN :
            fs = IF readOnly
                 THEN [Tree(target, content) EXCEPT ![<< <<"r">>, <<"f">> >>] = ReadOnly(@)]
                 ELSE Tree(target, content)
    /\ rootArgs = << <<"/", "r">> >>
    /\ PathDefaults
    /\ RangeDefaults
    /\ OpsDefaults
    /\ RaceDefaults

\* the handler has run on the request, from its first line to its return
Handled(name, args, done) ==
    /\ call' = [name |-> name, arguments |-> args]
    /\ before0' = fs
    /\ fs' = done.fs
    /\ response' = done.response
    /\ calls' = calls + 1
    /\ events' = done.events
    /\ UNCHANGED <<rootArgs, pathVars, rangeVars, raceVars>>

\* the arguments a request for the tool of that name is drawn from
ArgumentsOf(name) ==
    CASE name = "replace_block" -> ReplaceBlockArgs
      [] name = "cut_to_new_file" -> CutToNewFileArgs
      [] name = "copy_to_new_file" -> CopyToNewFileArgs
      [] name = "append_to_file" -> AppendToFileArgs
      [] name = "insert_at_position" -> InsertAtPositionArgs
      [] name = "delete_range" -> DeleteRangeArgs
      [] name = "move_file" -> MoveFileArgs
      [] OTHER -> DeleteRangeArgs

\* one request arrives, for a tool the switch has a case for or for one it
\* has none for, and the handler runs on it
CallTool ==
    /\ calls = 0
    /\ \E name \in ToolNames \cup UnknownNames :
         \E args \in ArgumentsOf(name) :
            Handled(name, args, callTool(fs, allowedDirectories(rootArgs), name, args))

Next == CallTool

Spec == Init /\ [][Next]_vars

(***************************************************************************)
(* Properties of the operations (Spec).                                    *)
(***************************************************************************)
Succeeded(name) == call.name = name /\ response.isError = "unset"
Dirs == allowedDirectories(rootArgs)

\* every file but those at the paths in changed is as it was when the call came in
OnlyChanged(changed) ==
    /\ DOMAIN before0 \subseteq DOMAIN fs
    /\ DOMAIN fs \subseteq DOMAIN before0 \cup changed
    /\ \A q \in DOMAIN before0 \ changed : fs[q] = before0[q]

\* C9: a successful replace-block on content C whose markers findRange
\* resolves to [start, end) leaves the file equal to C[:start] + S + C[end:],
\* and no other file changed.
C9_ReplaceBlockRoundTrip ==
    Succeeded("replace_block") =>
        LET args == call.arguments
            validPath == validatePath(before0, Dirs, args.path).path
            C == readFile(before0, validPath)
            range == findRange(C.data, args.range)
            after == readFile(fs, validPath)
        IN  /\ C.ok /\ range.found /\ after.ok
            /\ after.data = SubSeq(C.data, 1, range.start) \o args.content
                              \o SubSeq(C.data, range.end + 1, Len(C.data))
            /\ OnlyChanged({C.path})

\* a replace-block that took a span of at least one character, with text
\* before and after it, out of the file
C9_Witness ==
    /\ Succeeded("replace_block")
    /\ LET args == call.arguments
           C == readFile(before0, validatePath(before0, Dirs, args.path).path)
           range == findRange(C.data, args.range)
       IN  /\ range.start > 0
           /\ range.end > range.start
           /\ range.end < Len(C.data)
           /\ args.content # <<>>
           /\ "\n" \in {C.data[i] : i \in 1..Len(C.data)}

\* C10: a successful cut-to-new-file on source content C with resolved span
\* [start, end) leaves the target equal to C[start..end) and the source equal
\* to C[:start] + C[end:], for any source and target path arguments that
\* resolve inside the allowed root.
C10_CutConservation ==
    Succeeded("cut_to_new_file") =>
        LET args == call.arguments
            validSourcePath == validatePath(before0, Dirs, args.sourcePath).path
            validTargetPath == validatePath(before0, Dirs, args.targetPath).path
            C == readFile(before0, validSourcePath)
            range == findRange(C.data, args.range)
            source == readFile(fs, validSourcePath)
            target == readFile(fs, validTargetPath)
        IN  (InsideSomeRoot(C.path) /\ InsideSomeRoot(Landing(before0, validTargetPath, MaxLinks).path))
            => /\ C.ok /\ range.found /\ source.ok /\ target.ok
               /\ target.data = SubSeq(C.data, range.start + 1, range.end)
               /\ source.data = SubSeq(C.data, 1, range.start)
                                  \o SubSeq(C.data, range.end + 1, Len(C.data))
               /\ SubSeq(source.data, 1, range.start) \o target.data
                    \o SubSeq(source.data, range.start + 1, Len(source.data)) = C.data

(***************************************************************************)
(* What a call was asked to do, read off its arguments and the filesystem  *)
(* as it was when the call came in.                                        *)
(***************************************************************************)
Args == call.arguments
OnePathTools == { "replace_block", "insert_at_position", "delete_range" }
TwoPathTools == { "cut_to_new_file", "copy_to_new_file", "append_to_file" }
RangeTools == OnePathTools \cup TwoPathTools

\* the path arguments of the call, in the order of the schema
PathArgsOf(name) ==
    IF name \in OnePathTools THEN <<"path">>
    ELSE IF name \in TwoPathTools THEN <<"sourcePath", "targetPath">>
    ELSE IF name = "move_file" THEN <<"source", "destination">>
    ELSE <<>>

Valid(arg) == validatePath(before0, Dirs, Args[arg])
AllValid ==
    /\ call.name \in ToolNames
    /\ Args.wellFormed
    /\ \A i \in 1..Len(PathArgsOf(call.name)) : Valid(PathArgsOf(call.name)[i]).ok

\* the file whose content the call resolves its markers in, and the markers
SourceBefore == readFile(before0, Valid(PathArgsOf(call.name)[1]).path)
SourceAfter == readFile(fs, Valid(PathArgsOf(call.name)[1]).path)
MarkersOf == IF call.name = "insert_at_position" THEN Args.position ELSE Args.range
Resolved == findRange(SourceBefore.data, MarkersOf)
Extracted == SubSeq(SourceBefore.data, Resolved.start + 1, Resolved.end)
Removed ==
    SubSeq(SourceBefore.data, 1, Resolved.start)
      \o SubSeq(SourceBefore.data, Resolved.end + 1, Len(SourceBefore.data))

\* the target of a two-path call, before and after it
TargetBefore == readFile(before0, Valid("targetPath").path)
TargetAfter == readFile(fs, Valid("targetPath").path)

Failed == response.isError = "true"
ErrorText == response.content[1].text

\* C11: when a cut_to_new_file invocation has ended with a failure, either
\* the target holds the extracted text and the source has the span removed,
\* or neither file, and no other, has been changed.
C11_CutAtomic ==
    (call.name = "cut_to_new_file" /\ Failed) =>
        \/ fs = before0
        \/ /\ AllValid /\ SourceBefore.ok /\ Resolved.found
           /\ TargetAfter.ok /\ TargetAfter.data = Extracted
           /\ SourceAfter.ok /\ SourceAfter.data = Removed

\* the message of the Error an operation throws when findRange returns null
RangeNotFoundMessage(name) ==
    CASE name \in {"replace_block", "delete_range"} -> "Range not found"
      [] name = "insert_at_position" -> "Insert position not found"
      [] OTHER -> "Range not found in source file"

\* C12: for copy, cut, append, insert, delete and replace, when findRange
\* returns null on the content read the call fails with the operation's
\* range-not-found error and no file is created or modified.
C12_MissingMarkerUntouched ==
    (call.name \in RangeTools /\ Args.wellFormed) =>
        LET first == Valid(PathArgsOf(call.name)[1])
            last == Valid(PathArgsOf(call.name)[Len(PathArgsOf(call.name))])
            source == readFile(before0, first.path)
        IN  (first.ok /\ last.ok /\ source.ok /\ ~findRange(source.data, MarkersOf).found) =>
                /\ Failed
                /\ ErrorText = <<"Error: ", RangeNotFoundMessage(call.name)>>
                /\ fs = before0

\* delete_range on a file that has content but not the beforeText given
C12_Witness ==
    /\ call.name = "delete_range"
    /\ AllValid /\ SourceBefore.ok /\ ~Resolved.found
    /\ SourceBefore.data # <<>>
    /\ IndexOf(SourceBefore.data, Args.range.beforeText, 0) = -1
    /\ Failed

\* whether an open for writing of the validated path p fails
WriteFails(p) ==
    LET at == Landing(before0, p, MaxLinks)
    IN  ~at.ok \/ ~Writable(before0, at.path)

\* whether the directory of the validated path p has an entry of p's name
EntryExists(p) ==
    /\ p # <<>>
    /\ realpath(before0, dirname(p)).ok
    /\ Append(realpath(before0, dirname(p)).path, p[Len(p)]) \in DOMAIN before0

\* the failures a call can meet: an unknown name, invalid arguments, a path
\* validatePath rejects, a file that cannot be read, markers that are not
\* found, a file that cannot be written, a file to move that does not exist
Failure ==
    \/ call.name \notin ToolNames
    \/ ~Args.wellFormed
    \/ LET first == Valid(PathArgsOf(call.name)[1])
           last == Valid(PathArgsOf(call.name)[Len(PathArgsOf(call.name))])
           source == readFile(before0, first.path)
       IN  \/ ~first.ok
           \/ ~last.ok
           \/ call.name \in RangeTools /\ ~source.ok
           \/ call.name \in RangeTools /\ ~findRange(source.data, MarkersOf).found
           \/ call.name = "move_file" /\ ~EntryExists(first.path)
           \/ call.name # "move_file" /\ WriteFails(last.path)
           \/ call.name = "cut_to_new_file" /\ WriteFails(first.path)

\* C13: the call handler returns a result for every call: one text block; on
\* every failure the text starts with "Error: " and isError is true, on
\* success isError is not set.
C13_FailuresAreValues ==
    calls = 1 =>
        /\ Len(response.content) = 1
        /\ response.content[1].type = "text"
        /\ IF Failure
           THEN Failed /\ Head(ErrorText) = "Error: "
           ELSE response.isError = "unset" /\ Head(ErrorText) # "Error: "

\* a call of a tool name the switch has no case for
C13_Witness ==
    /\ calls = 1
    /\ call.name \in UnknownNames
    /\ Failed
    /\ ErrorText = <<"Error: ", "Unknown tool: ", call.name>>

\* the place of a call in the order of an operation: schema check, path
\* validation, file read, range resolution, write
Rank(op) ==
    CASE op = "safeParse" -> 0
      [] op = "validatePath" -> 1
      [] op = "readFile" -> 2
      [] op = "findRange" -> 3
      [] op \in {"writeFile", "appendFile", "rename"} -> 4

\* the calls the operation made with the filesystem content: reads and writes
TouchedContent == { i \in 1..Len(events) : Rank(events[i].op) \in {2, 4} }

\* C14: an operation checks its arguments first, then validates every path
\* argument, then reads, then resolves the range, then writes; when the schema
\* check or the validation of any path fails, no file is read and nothing is
\* written (an invalid target keeps the source from being read).
C14_StepOrder ==
    (calls = 1 /\ call.name \in ToolNames) =>
        /\ Len(events) >= 1
        /\ events[1].op = "safeParse"
        /\ \A i, j \in 1..Len(events) :
             i < j => /\ Rank(events[i].op) <= Rank(events[j].op)
                      /\ events[j].op # "safeParse"
        /\ TouchedContent # {} =>
             \A k \in 1..Len(PathArgsOf(call.name)) :
                \E j \in 1..Len(events) :
                   /\ events[j] = [op |-> "validatePath", path |-> Args[PathArgsOf(call.name)[k]]]
                   /\ \A i \in TouchedContent : j < i
        /\ (TouchedContent # {} \/ fs # before0) => AllValid

\* a two-path call whose source is valid and whose target is not
C14_Witness ==
    /\ calls = 1
    /\ call.name \in TwoPathTools \cup {"move_file"}
    /\ Args.wellFormed
    /\ Valid(PathArgsOf(call.name)[1]).ok
    /\ ~Valid(PathArgsOf(call.name)[2]).ok
    /\ Len(events) = 3
    /\ Failed

\* C16: copy_to_new_file and cut_to_new_file fail when the target exists and
\* leave it as it is; they write the target only when it did not exist.
C16_FailIfTargetExists ==
    ( /\ call.name \in {"copy_to_new_file", "cut_to_new_file"}
      /\ AllValid
      /\ EntryExists(Valid("targetPath").path) ) =>
        /\ Failed
        /\ TargetAfter = TargetBefore
        /\ \A i \in 1..Len(events) :
             ~(events[i].op = "writeFile" /\ events[i].path = Valid("targetPath").path)

\* the places in content C the markers fit: beforeText at i and afterText at
\* j, at or after the end of that beforeText
Positions(C, markers) ==
    { pos \in (0..Len(C)) \X (0..Len(C)) :
        /\ OccursAt(C, markers.beforeText, pos[1])
        /\ pos[2] >= pos[1] + Len(markers.beforeText)
        /\ OccursAt(C, markers.afterText, pos[2]) }

\* markers of which one occurs more than once so that several positions match
Ambiguous(C, markers) ==
    /\ markers.beforeText # <<>>
    /\ markers.afterText # <<>>
    /\ Cardinality(Positions(C, markers)) > 1

\* C17: insert_at_position and replace_block fail, and leave the file as it
\* is, when the markers match at several positions of the file.
C17_AmbiguousMarkersRejected ==
    ( /\ call.name \in {"insert_at_position", "replace_block"}
      /\ AllValid
      /\ SourceBefore.ok
      /\ Ambiguous(SourceBefore.data, MarkersOf) ) =>
        /\ Failed
        /\ fs = before0

\* C18: a copy_to_new_file or append_to_file call, whether it succeeds or
\* fails and whatever its target, leaves the content of the source file (a
\* file inside the allowed directory) as it was before the call.
C18_SourceUntouched ==
    ( /\ call.name \in {"copy_to_new_file", "append_to_file"}
      /\ Args.wellFormed
      /\ Valid("sourcePath").ok
      /\ SourceBefore.ok
      /\ InsideSomeRoot(SourceBefore.path) ) =>
        /\ SourceAfter.ok
        /\ SourceAfter.data = SourceBefore.data

\* C19: a successful insert_at_position of text X, the position markers
\* resolving to [start, end) in content C, leaves the file equal to
\* C[:start] + X + C[start:]: X stands right after the first beforeText, and
\* the bracketed text and afterText follow X as they were; no other file changes.
C19_InsertEffect ==
    Succeeded("insert_at_position") =>
        LET C == SourceBefore.data
            X == Args.content
            start == Resolved.start
            now == SourceAfter.data
        IN  /\ SourceBefore.ok /\ Resolved.found /\ SourceAfter.ok
            /\ now = SubSeq(C, 1, start) \o X \o SubSeq(C, start + 1, Len(C))
            /\ OccursAt(now, Args.position.beforeText, start - Len(Args.position.beforeText))
            /\ OccursAt(now, X, start)
            /\ OccursAt(now, Extracted \o Args.position.afterText, start + Len(X))
            /\ OnlyChanged({SourceBefore.path})

\* an insert of a text between two markers that bracket a text
C19_Witness ==
    /\ Succeeded("insert_at_position")
    /\ Args.content # <<>>
    /\ Args.position.beforeText # <<>>
    /\ Args.position.afterText # <<>>
    /\ Resolved.end > Resolved.start

\* C20: after a successful append_to_file the target holds what it held
\* before the call followed by the extracted span C[start..end) of the source;
\* a target that did not exist holds exactly the span.
C20_AppendEffect ==
    Succeeded("append_to_file") =>
        /\ SourceBefore.ok /\ Resolved.found /\ TargetAfter.ok
        /\ TargetAfter.data = (IF TargetBefore.ok THEN TargetBefore.data ELSE <<>>) \o Extracted
        /\ ~EntryExists(Valid("targetPath").path) => TargetAfter.data = Extracted

\* an append of a span of at least one character to a file that has content
C20_Witness ==
    /\ Succeeded("append_to_file")
    /\ TargetBefore.ok
    /\ TargetBefore.data # <<>>
    /\ Extracted # <<>>
    /\ Len(Extracted) < Len(SourceBefore.data)

(***************************************************************************)
(* SpecRace: two invocations issued together on the same file.  The        *)
(* handler is an async function: an invocation runs until it awaits a      *)
(* filesystem call, and the filesystem calls of the two invocations take   *)
(* effect in any order.                                                    *)
(***************************************************************************)
Procs == {1, 2}
RaceTools == { "replace_block", "delete_range" }
RacePath == <<"/", "r", "/", "f">>
RaceContents == SeqsUpTo(FileAlphabet, MaxRaceLen)
RaceMarkers == { <<>>, <<"X">>, <<"Y">> }
RaceRanges == [beforeText : RaceMarkers, afterText : RaceMarkers]

RaceArgs(name) ==
    [wellFormed : {TRUE}, path : {RacePath}, sourcePath : {<<>>}, targetPath : {<<>>},
     range : RaceRanges, position : {NoRange},
     content : IF name = "replace_block" THEN { <<"Z">> } ELSE { <<>> },
     source : {<<>>}, destination : {<<>>}]

RaceCalls == UNION { { [name |-> name, args |-> args] : args \in RaceArgs(name) } :
                     name \in RaceTools }

\* the filesystem calls an operation awaits, one after the other
Steps(name) == 3

\* what an invocation runs from its k-th suspension to the next: up to the
\* realpath calls of validatePath, the read, the write
Step(name, k, inv, dirs) ==
    CASE name = "replace_block" /\ k = 1 ->
            validate(safeParse(inv, name), dirs, "path", "validPath")
      [] name = "replace_block" /\ k = 2 -> read(inv, "validPath")
      [] name = "replace_block" /\ k = 3 ->
            return(replaceBlockWrite(resolveRange(inv, "Range not found")),
                   <<"Successfully replaced content in ", inv.args.path>>)
      [] name = "delete_range" /\ k = 1 ->
            validate(safeParse(inv, name), dirs, "path", "validPath")
      [] name = "delete_range" /\ k = 2 -> read(inv, "validPath")
      [] name = "delete_range" /\ k = 3 ->
            return(deleteWrite(resolveRange(inv, "Range not found")),
                   <<"Successfully deleted content from ", inv.args.path>>)

InitRace ==
    /\ \E content \in RaceContents : fs = Tree(<< <<"o">>, <<"f">> >>, content)
    /\ rootArgs = << <<"/", "r">> >>
    /\ \E first \in RaceCalls, second \in RaceCalls :
         tasks = [p \in Procs |->
                    LET request == IF p = 1 THEN first ELSE second
                    IN  [name |-> request.name, at |-> 0,
                         inv |-> Begin(<<>>, request.args)]]
    /\ log = <<>>
    /\ before0 = fs
    /\ call = NoCall
    /\ response = NoResponse
    /\ calls = 0
    /\ events = <<>>
    /\ PathDefaults
    /\ RangeDefaults

\* invocation p has gone on to done, its next suspension or its end
Advanced(p, task, done) ==
    /\ fs' = done.fs
    /\ tasks' = [tasks EXCEPT ![p] =
                   [task EXCEPT !.inv = done,
                                !.at = IF done.thrown THEN Steps(task.name) ELSE @ + 1]]
    /\ log' = log \o [i \in 1..(Len(done.trace) - Len(task.inv.trace)) |->
                        [proc |-> p,
                         op |-> done.trace[Len(task.inv.trace) + i].op,
                         path |-> done.trace[Len(task.inv.trace) + i].path]]
    /\ UNCHANGED <<rootArgs, pathVars, rangeVars, opVars>>

Advance ==
    \E p \in Procs :
        /\ tasks[p].at < Steps(tasks[p].name)
        /\ Advanced(p, tasks[p],
                    Step(tasks[p].name, tasks[p].at + 1,
                         [tasks[p].inv EXCEPT !.fs = fs], allowedDirectories(rootArgs)))

NextRace == Advance

SpecRace == InitRace /\ [][NextRace]_vars

(***************************************************************************)
(* Properties of concurrent invocations (SpecRace).                        *)
(***************************************************************************)
Ended(p) == tasks[p].at = Steps(tasks[p].name)
Won(p) == Ended(p) /\ ~tasks[p].inv.thrown

\* when invocation p made its call op, as a place in the log
At(p, op) == CHOOSE i \in 1..Len(log) : log[i].proc = p /\ log[i].op = op

\* both invocations read the file before either wrote it
ReadsBeforeWrites ==
    \A p, q \in Procs : At(p, "readFile") < At(q, "writeFile")

LaterWriter == CHOOSE p \in Procs : \A q \in Procs : At(q, "writeFile") <= At(p, "writeFile")
EarlierWriter == CHOOSE p \in Procs : p # LaterWriter

\* the edit invocation p asks for, made on content C
Edit(p, C) ==
    LET range == findRange(C, tasks[p].inv.args.range)
        text == IF tasks[p].name = "replace_block" THEN tasks[p].inv.args.content ELSE <<>>
    IN  IF ~range.found THEN C
        ELSE SubSeq(C, 1, range.start) \o text \o SubSeq(C, range.end + 1, Len(C))

RaceFile == << <<"r">>, <<"f">> >>

\* C15: when two invocations on the same file both read it before either
\* writes, the file ends up with exactly what the later writer computed from
\* the content both read; nothing of the earlier writer's edit is in it.
C15_LastWriterWins ==
    (tasks # <<>> /\ (\A p \in Procs : Won(p)) /\ ReadsBeforeWrites) =>
        fs[RaceFile].c = Edit(LaterWriter, before0[RaceFile].c)

\* both read, then both wrote; the earlier writer changed the file, and the
\* file is not what the two edits one after the other give
C15_Witness ==
    /\ tasks # <<>>
    /\ \A p \in Procs : Won(p)
    /\ ReadsBeforeWrites
    /\ Edit(EarlierWriter, before0[RaceFile].c) # before0[RaceFile].c
    /\ fs[RaceFile].c # Edit(LaterWriter, Edit(EarlierWriter, before0[RaceFile].c))
    /\ fs[RaceFile].c = Edit(LaterWriter, before0[RaceFile].c)

(***************************************************************************)
(* The offsets of an invocation and the content they are applied to        *)
(* (SpecRace).                                                             *)
(***************************************************************************)
\* invocation p goes from its suspension k to the next without throwing
Resumes(p, k) ==
    /\ tasks[p].at = k
    /\ tasks'[p].at = k + 1
    /\ ~tasks'[p].inv.thrown

\* the invocation that wrote last read the file before the other wrote it,
\* and the other's write changed the file
ReadThenOverwritten ==
    /\ At(LaterWriter, "readFile") < At(EarlierWriter, "writeFile")
    /\ Edit(EarlierWriter, tasks[EarlierWriter].inv.content)
         # tasks[LaterWriter].inv.content

\* C27: in every step, under any interleaving of two invocations, an
\* invocation starts with no offsets, the content it holds is the file as it
\* was at its own read, the offsets it cuts or splices with are those
\* findRange gives for that content, and what it writes is that content cut or
\* spliced at those offsets, whatever the file holds at the time of the write
C27_NoStaleOffsets ==
    [][\A p \in Procs :
          /\ tasks[p].at < 2 => tasks[p].inv.range = Null
          /\ Resumes(p, 1) => tasks'[p].inv.content = readFile(fs, tasks'[p].inv.validPath).data
          /\ Resumes(p, 2) =>
                /\ tasks'[p].inv.content = tasks[p].inv.content
                /\ tasks'[p].inv.range
                     = findRange(tasks[p].inv.content, tasks[p].inv.args.range)
                /\ fs'[RaceFile].c
                     = (IF tasks[p].name = "replace_block"
                        THEN spliceReplace(tasks[p].inv.content, tasks'[p].inv.range,
                                           tasks[p].inv.args.content)
                        ELSE spliceRemove(tasks[p].inv.content, tasks'[p].inv.range))]_vars

\* both invocations have written; the later writer read before the earlier
\* one's write changed the file, and the file holds the later writer's edit
\* of what it read, not its edit of what the file held when it wrote
C27_Witness ==
    /\ tasks # <<>>
    /\ \A p \in Procs : Won(p)
    /\ tasks[LaterWriter].name = "replace_block"
    /\ ReadThenOverwritten
    /\ fs[RaceFile].c = Edit(LaterWriter, tasks[LaterWriter].inv.content)
    /\ fs[RaceFile].c
         # Edit(LaterWriter, Edit(EarlierWriter, tasks[EarlierWriter].inv.content))

(***************************************************************************)
(* SpecPattern: one replace_by_pattern call on a file of any content, with *)
(* a pattern, flags and a replacement the caller chooses.                  *)
(***************************************************************************)
PatternAlphabet == { "a", "b" }
\* files of letters, and files with an upper-case letter, a line end, a dot
PatternFiles ==
    SeqsUpTo(PatternAlphabet, MaxPatternFileLen)
      \cup { <<"A", "a">>, <<"\n", "a">>, <<".", "a">> }

\* patterns that parse: the empty one, literals, ".", an escaped "."; and
\* patterns that do not: an open group, a stray ")", nothing to repeat, an
\* open class, a backslash at the end
Patterns ==
    { <<>>, <<"a">>, <<".">>, <<"\\", ".">>, <<"a", "b">>, <<"a", "a">>,
      <<"(">>, <<"a", ")">>, <<"*">>, <<"[", "a">>, <<"a", "\\">> }

\* no flags, flags RegExp knows, a flag given twice, a flag it does not know
FlagSets ==
    { <<>>, <<"g">>, <<"y">>, <<"g", "y">>, <<"i">>, <<"g", "i">>, <<"s">>,
      <<"g", "g">>, <<"x">> }

Replacements == { <<"b">>, <<>>, <<"$", "&", "$", "&">>, <<"$", "$">>, <<"$", "1">> }

\* the file, a name that does not exist, a file outside the allowed directory
PatternPaths == { <<"/", "r", "/", "f">>, <<"/", "r", "/", "t">>, <<"/", "o", "/", "f">> }

MalformedPattern ==
    [wellFormed |-> FALSE, path |-> <<>>, pattern |-> <<>>, flags |-> <<>>,
     replacement |-> <<>>]

ReplaceByPatternArgs ==
    [wellFormed : {TRUE}, path : PatternPaths, pattern : Patterns, flags : FlagSets,
     replacement : Replacements] \cup {MalformedPattern}

InitPattern ==
    /\ \E content \in PatternFiles, readOnly \in BOOLEAN :
          fs = IF readOnly
               THEN [Tree(<< <<"o">>, <<"f">> >>, content)
                       EXCEPT ![<< <<"r">>, <<"f">> >>] = ReadOnly(@)]
               ELSE Tree(<< <<"o">>, <<"f">> >>, content)
    /\ rootArgs = << <<"/", "r">> >>
    /\ PathDefaults
    /\ RangeDefaults
    /\ OpsDefaults
    /\ RaceDefaults

\* one replace_by_pattern request arrives and the handler runs on it
ReplaceByPatternCall ==
    /\ calls = 0
    /\ \E args \in ReplaceByPatternArgs :
         Handled("replace_by_pattern", args,
                 callTool(fs, allowedDirectories(rootArgs), "replace_by_pattern", args))

NextPattern == ReplaceByPatternCall

SpecPattern == InitPattern /\ [][NextPattern]_vars

(***************************************************************************)
(* Properties of replace_by_pattern (SpecPattern).                         *)
(***************************************************************************)
PatternFile == << <<"r">>, <<"f">> >>
Replaced == calls = 1 /\ call.name = "replace_by_pattern" /\ ~Failed

\* the content the call read and the content it left
Subject == before0[PatternFile].c
Outcome == fs[PatternFile].c

Flags == Chars(call.arguments.flags)
PatternAtoms == RegExpFrom(call.arguments.pattern, 1)

\* what the pattern says, atom by atom: a literal is that character (in either
\* case with flag i), "." any character (but a line end without flag s)
Accepts(atom, c) ==
    IF atom.k = "any" THEN "s" \in Flags \/ c \notin {"\n", "\r"}
    ELSE c = atom.c \/ ("i" \in Flags /\ UpperChar(c) = UpperChar(atom.c))

\* the offsets of the content at which the pattern matches
Hit(i) ==
    \A k \in 1..Len(PatternAtoms) :
       i + k <= Len(Subject) /\ Accepts(PatternAtoms[k], Subject[i + k])
Hits == { i \in 0..Len(Subject) : Hit(i) }

\* what the match at offset i is replaced with
Substitute(i) ==
    GetSubstitution(substring(Subject, i, i + Len(PatternAtoms)), Subject, i,
                    call.arguments.replacement)

\* the content with the leftmost match replaced and the rest as it was
FirstReplaced ==
    IF Hits = {} THEN Outcome = Subject
    ELSE LET i == CHOOSE h \in Hits : \A other \in Hits : h <= other
         IN  Outcome = substring(Subject, 0, i) \o Substitute(i)
                         \o substringFrom(Subject, i + Len(PatternAtoms))

\* the matches from left to right, none overlapping one before it
Chosen ==
    CHOOSE M \in SUBSET Hits :
       \A i \in Hits :
          i \in M <=> \A j \in M : ~(j < i /\ i < j + Len(PatternAtoms))

\* the content with every one of those matches replaced
RECURSIVE Rewritten(_)
Rewritten(i) ==
    IF i > Len(Subject) THEN <<>>
    ELSE (IF i \in Chosen THEN Substitute(i) ELSE <<>>)
         \o (IF i < Len(Subject)
                /\ \A j \in Chosen : ~(j <= i /\ i < j + Len(PatternAtoms))
             THEN <<Subject[i + 1]>> ELSE <<>>)
         \o Rewritten(i + 1)
AllReplaced == Outcome = Rewritten(0)

\* the example: "aaa", pattern "a", replacement "b"
ExampleCall(flags) ==
    /\ Subject = <<"a", "a", "a">>
    /\ call.arguments.pattern = <<"a">>
    /\ call.arguments.replacement = <<"b">>
    /\ call.arguments.flags = flags

\* C21, as stated: after a successful replace_by_pattern the file has, without
\* flag g, its leftmost match replaced and the rest unchanged and, with flag
\* g, every match replaced, whatever the other flags are
C21_GlobalFlagHonoured ==
    Replaced => IF "g" \in Flags THEN AllReplaced ELSE FirstReplaced

\* C21, amended: the same for flags without y (with flag y a match is looked
\* for only where the last one ended, at the start of the content first);
\* "aaa" with pattern "a" and replacement "b" becomes "baa" without and "bbb"
\* with flag g
C21_GlobalFlagHonouredUnlessSticky ==
    (Replaced /\ "y" \notin Flags) =>
        /\ IF "g" \in Flags THEN AllReplaced ELSE FirstReplaced
        /\ ExampleCall(<<>>) => Outcome = <<"b", "a", "a">>
        /\ ExampleCall(<<"g">>) => Outcome = <<"b", "b", "b">>

\* the example with flag g has run: "aaa" has become "bbb"
C21_Witness ==
    /\ Replaced
    /\ ExampleCall(<<"g">>)
    /\ Outcome = <<"b", "b", "b">>

\* whether new RegExp accepts the pattern and the flags of the call
Constructs == newRegExp(call.arguments.pattern, call.arguments.flags).ok

\* the call has arguments of the schema, a path validatePath accepts, a file
\* it can read and may write
Workable ==
    /\ calls = 1
    /\ call.name = "replace_by_pattern"
    /\ Args.wellFormed
    /\ LET valid == Valid("path")
       IN  valid.ok /\ readFile(before0, valid.path).ok /\ ~WriteFails(valid.path)

Wrote == \E i \in 1..Len(events) : events[i].op = "writeFile"

slotRead(filePath, content) == <<filePath, ":\n", content, "\n">>

\* `${filePath}: Error - ${errorMessage}`
slotError(filePath, errorMessage) == <<filePath, ": Error - ", errorMessage>>

\* Array.prototype.join
RECURSIVE arrayJoin(_, _)
arrayJoin(array, separator) ==
    IF array = <<>> THEN <<>>
    ELSE IF Len(array) = 1 THEN array[1]
    ELSE array[1] \o <<separator>> \o arrayJoin(Tail(array), separator)

\* the mapper of one path up to its next suspension: validatePath, then
\* readFile; what either throws is caught and becomes the text of the slot
mapper(f, dirs, task) ==
    IF task.at = "validatePath"
    THEN LET valid == validatePath(f, dirs, task.path)
         IN  IF valid.ok THEN [task EXCEPT !.at = "readFile", !.validPath = valid.path]
             ELSE [task EXCEPT !.at = "done", !.result = slotError(task.path, valid.err)]
    ELSE LET file == readFile(f, task.validPath)
         IN  [task EXCEPT !.at = "done",
                          !.result = IF file.ok THEN slotRead(task.path, file.data)
                                     ELSE slotError(task.path, file.err)]

\* results in the order in which the mappers ended
settled_ByCompletion(mappers, ended) ==
    [k \in 1..Len(ended) |-> mappers[ended[k]].result]

\* what Promise.all resolves to: the results in the order of the mappers
settled(mappers, ended) ==
    [i \in 1..Len(mappers) |-> mappers[i].result]

\* the file inside, the file in the second allowed directory, a name that
\* does not exist, a file outside both
BatchPaths ==
    { <<"/", "r", "/", "f">>, <<"/", "o", "/", "f">>, <<"/", "r", "/", "t">>,
      <<"/", "r", "x", "/", "f">> }
BatchFiles == { <<>>, <<"X">> }

MalformedBatch == [wellFormed |-> FALSE, paths |-> <<>>]
ReadMultipleFilesArgs ==
    [wellFormed : {TRUE}, paths : SeqsUpTo(BatchPaths, MaxBatch)] \cup {MalformedBatch}

InitBatch ==
    /\ \E content \in BatchFiles : fs = Tree(<< <<"o">>, <<"f">> >>, content)
    /\ rootArgs = << <<"/", "r">>, <<"/", "o">> >>
    /\ \E args \in ReadMultipleFilesArgs :
          call = [name |-> "read_multiple_files", arguments |-> args]
    /\ response = NoResponse
    /\ before0 = fs
    /\ calls = 0
    /\ events = <<>>
    /\ PathDefaults
    /\ RangeDefaults
    /\ RaceDefaults

\* the handler starts: safeParse, and with arguments of the schema one mapper
\* per path; with others the throw, which ends the call
BatchStart ==
    /\ calls = 0
    /\ events = <<>>
    /\ LET parsed == safeParse(Begin(fs, call.arguments), "read_multiple_files")
       IN  /\ events' = parsed.trace
           /\ IF parsed.thrown
              THEN /\ response' = respond(parsed).response
                   /\ calls' = 1
                   /\ UNCHANGED tasks
              ELSE /\ tasks' = [i \in 1..Len(call.arguments.paths) |->
                                  [path |-> call.arguments.paths[i], at |-> "validatePath",
                                   validPath |-> <<>>, result |-> <<>>]]
                   /\ UNCHANGED <<response, calls>>
    /\ UNCHANGED <<fs, rootArgs, pathVars, rangeVars, call, before0, log>>

\* one mapper goes on to its next suspension or to its end
MapperStep ==
    \E i \in 1..Len(tasks) :
        /\ calls = 0
        /\ tasks[i].at # "done"
        /\ LET task == mapper(fs, allowedDirectories(rootArgs), tasks[i])
           IN  /\ tasks' = [tasks EXCEPT ![i] = task]
               /\ log' = IF task.at = "done" THEN Append(log, i) ELSE log
        /\ UNCHANGED <<fs, rootArgs, pathVars, rangeVars, opVars>>

\* every mapper has ended: Promise.all resolves and the handler returns the
\* joined results
BatchSettle ==
    /\ calls = 0
    /\ events # <<>>
    /\ \A i \in 1..Len(tasks) : tasks[i].at = "done"
    /\ response' = respond(return(Begin(fs, call.arguments),
                                  arrayJoin(settled(tasks, log), "\n---\n"))).response
    /\ calls' = 1
    /\ UNCHANGED <<fs, rootArgs, pathVars, rangeVars, call, before0, events, raceVars>>

NextBatch ==
    \/ BatchStart
    \/ MapperStep
    \/ BatchSettle

SpecBatch == InitBatch /\ [][NextBatch]_vars

(***************************************************************************)
(* Properties of read_multiple_files (SpecBatch).                          *)
(***************************************************************************)
BatchReturned == calls = 1 /\ call.arguments.wellFormed
Requested == call.arguments.paths

\* what a read of the path alone gives: its content, or its error
Alone(filePath) ==
    LET valid == validatePath(before0, Dirs, filePath)
        file == readFile(before0, valid.path)
    IN  IF ~valid.ok THEN slotError(filePath, valid.err)
        ELSE IF ~file.ok THEN slotError(filePath, file.err)
        ELSE slotRead(filePath, file.data)
Fails(filePath) == Alone(filePath)[2] = ": Error - "

TargetMissing == ~RealOfRequest.ok /\ RealOfRequest.err = "ENOENT"
ParentInside == Absolute # <<>> /\ RealOfParent.ok /\ InsideSomeRoot(RealOfParent.path)

\* C23, as stated: for a request at which nothing exists and whose directory
\* has its real path inside an allowed root, validatePath returns the absolute
\* path of the request
C23_NewFileAccepted ==
    (Called /\ TargetMissing /\ ParentInside) =>
        validated.ok /\ validated.path = Absolute

\* C23, amended: the same for a request whose own text is below an allowed
\* directory, which validatePath checks first
C23_NewFileAcceptedWhenLexicallyInside ==
    (Called /\ TargetMissing /\ ParentInside /\ PassedLexicalCheck) =>
        validated.ok /\ validated.path = Absolute

\* a name that does not exist was asked for through the symbolic link to a
\* directory, and the path returned is the one asked for, the link unresolved
C23_Witness ==
    /\ Called /\ TargetMissing /\ ParentInside
    /\ validated.ok
    /\ validated.path = Absolute
    /\ Append(RealOfParent.path, Absolute[Len(Absolute)]) # Absolute

(***************************************************************************)
(* SpecRepeat: findRange called again and again.  Every call makes its     *)
(* regular expression object anew; log holds the calls made so far, each   *)
(* with its arguments, its result and the object it left behind.           *)
(***************************************************************************)
\* where RegExpBuiltinExec starts: at lastIndex with flag g or y, else at 0
startOf(regex) == IF regex.global \/ regex.sticky THEN regex.lastIndex ELSE 0

\* lastIndex after the exec: with flag g or y the end of the match, or 0
\* after a failure; without them as it was
lastIndexAfter(regex, m) ==
    IF regex.global \/ regex.sticky
    THEN (IF m.match THEN m.index + m.length ELSE 0)
    ELSE regex.lastIndex

\* one regular expression object with flag g kept from call to call
rangeRegExp_Kept(earlier, range) ==
    [newRegExp(fullPattern(range), <<"s">>).regex
        EXCEPT !.global = TRUE,
               !.lastIndex = IF earlier = <<>> THEN 0
                             ELSE earlier[Len(earlier)].regex.lastIndex]

\* const regex = new RegExp(fullPattern, 's'): a local of the call, whatever
\* the calls before it left
rangeRegExp(earlier, range) == newRegExp(fullPattern(range), <<"s">>).regex

\* findRange, called after the calls in earlier
findRangeAfter(earlier, content, range) ==
    LET regex == rangeRegExp(earlier, range)
        m == exec(regex, content, startOf(regex))
    IN  [content |-> content, range |-> range,
         result |-> IF ~m.match THEN Null
                    ELSE Range(m.index + Len(range.beforeText),
                               m.index + m.length - Len(range.afterText)),
         regex |-> [regex EXCEPT !.lastIndex = lastIndexAfter(regex, m)]]

RepeatContents == { <<"X", "X">>, <<"X", "Y", "X", "Y">>, <<"Y", "\n", "X">> }
\* marker pairs that are found more than once, once, at the empty marker, never
RepeatRanges ==
    { [beforeText |-> <<"X">>, afterText |-> <<"Y">>],
      [beforeText |-> <<"X">>, afterText |-> <<"X">>],
      [beforeText |-> <<"Y">>, afterText |-> <<>>],
      [beforeText |-> <<>>, afterText |-> <<"Y">>],
      [beforeText |-> <<"Y">>, afterText |-> <<"Y">>] }

InitRepeat ==
    /\ fs = Tree(<< <<"r">>, <<"f">> >>, <<"X">>)
    /\ rootArgs = << <<"/", "r">> >>
    /\ tasks = <<>>
    /\ log = <<>>
    /\ PathDefaults
    /\ RangeDefaults
    /\ OpsDefaults

FindRangeAgain ==
    /\ Len(log) < MaxRepeat
    /\ \E content \in RepeatContents, range \in RepeatRanges :
          log' = Append(log, findRangeAfter(log, content, range))
    /\ UNCHANGED <<fs, rootArgs, pathVars, rangeVars, opVars, tasks>>

NextRepeat == FindRangeAgain

SpecRepeat == InitRepeat /\ [][NextRepeat]_vars

(***************************************************************************)
(* Properties of repeated findRange calls (SpecRepeat).                    *)
(***************************************************************************)
SameInputs(i, j) == log[i].content = log[j].content /\ log[i].range = log[j].range

\* C24: two findRange calls with the same content and markers, anywhere in a
\* sequence of calls, have the same result: the same offsets, or null both
\* times; it is the result of the call made alone
C24_Deterministic ==
    \A i \in 1..Len(log) :
       /\ log[i].result = findRange(log[i].content, log[i].range)
       /\ \A j \in 1..Len(log) : SameInputs(i, j) => log[i].result = log[j].result

\* the same call was made twice with another call between, and found a
\* range that does not start at the start of the content
C24_Witness ==
    /\ Len(log) = 3
    /\ SameInputs(1, 3)
    /\ ~SameInputs(1, 2)
    /\ log[1].result.found
    /\ log[1].result.start > 0
    /\ log[3].result = log[1].result

(***************************************************************************)
(* Where the filesystem calls of an operation land (Spec).                 *)
(***************************************************************************)
FileCalls == { "readFile", "writeFile", "appendFile", "rename" }

\* C25: every filesystem call of an operation is made on a path whose real
\* location, reached by following the symbolic links on it, is inside an
\* allowed directory
C25_AccessInsideRoots ==
    calls = 1 =>
        \A i \in 1..Len(events) :
           events[i].op \in FileCalls =>
              LET at == Landing(before0, events[i].path, MaxLinks)
              IN  at.ok => InsideSomeRoot(at.path)

(***************************************************************************)
(* SpecCut: one cut_to_new_file invocation, step by step.  It is suspended *)
(* at its filesystem calls, and the process may stop at any of them, the   *)
(* rest of the invocation never running.                                   *)
(***************************************************************************)
\* the suspensions of cutToNewFile: the validations, the read, the write of
\* the target, the write of the source
CutSteps == 4

cutStep(k, inv, dirs) ==
    CASE k = 1 ->
            validate(
                validate(safeParse(inv, "cut_to_new_file"),
                         dirs, "sourcePath", "validSourcePath"),
                dirs, "targetPath", "validTargetPath")
      [] k = 2 -> read(inv, "validSourcePath")
      [] k = 3 -> cutWriteTarget(resolveRange(inv, "Range not found in source file"))
      [] k = 4 -> return(cutWriteSource(inv),
                         <<"Successfully moved content to ", inv.args.targetPath>>)

CutContents == SeqsUpTo(FileAlphabet, MaxCutLen)
CutPaths == { <<"/", "r", "/", "f">>, <<"/", "r", "/", "t">> }
CutArgs ==
    [wellFormed : {TRUE}, path : {<<>>}, sourcePath : CutPaths, targetPath : CutPaths,
     range : Ranges, position : {NoRange}, content : {<<>>},
     source : {<<>>}, destination : {<<>>}]

\* the file /r/f, in a directory the server may write, or may not write
\* itself, or in a directory in which it may not make a file
InitCut ==
    /\ \E content \in CutContents, mode \in {"writable", "file", "directory"} :
          fs = CASE mode = "writable" -> Tree(<< <<"o">>, <<"f">> >>, content)
                 [] mode = "file" ->
                      [Tree(<< <<"o">>, <<"f">> >>, content)
                         EXCEPT ![<< <<"r">>, <<"f">> >>] = ReadOnly(@)]
                 [] mode = "directory" ->
                      [Tree(<< <<"o">>, <<"f">> >>, content)
                         EXCEPT ![<< <<"r">> >>] = ReadOnly(@)]
    /\ rootArgs = << <<"/", "r">> >>
    /\ \E args \in CutArgs :
          tasks = << [name |-> "cut_to_new_file", at |-> 0, stopped |-> FALSE,
                      inv |-> Begin(<<>>, args)] >>
    /\ log = <<>>
    /\ before0 = fs
    /\ call = NoCall
    /\ response = NoResponse
    /\ calls = 0
    /\ events = <<>>
    /\ PathDefaults
    /\ RangeDefaults

\* the invocation goes on to its next suspension, or to its end
CutAdvance ==
    /\ ~tasks[1].stopped
    /\ tasks[1].at < CutSteps
    /\ LET done == cutStep(tasks[1].at + 1, [tasks[1].inv EXCEPT !.fs = fs],
                           allowedDirectories(rootArgs))
       IN  /\ fs' = done.fs
           /\ tasks' = [tasks EXCEPT ![1].inv = done,
                                     ![1].at = IF done.thrown THEN CutSteps ELSE @ + 1]
    /\ UNCHANGED <<rootArgs, pathVars, rangeVars, opVars, log>>

\* the process stops while the invocation is suspended
CutStop ==
    /\ ~tasks[1].stopped
    /\ tasks[1].at < CutSteps
    /\ tasks' = [tasks EXCEPT ![1].stopped = TRUE]
    /\ UNCHANGED <<fs, rootArgs, pathVars, rangeVars, opVars, log>>

NextCut ==
    \/ CutAdvance
    \/ CutStop

SpecCut == InitCut /\ [][NextCut]_vars

(***************************************************************************)
(* Properties of the two writes of cut_to_new_file (SpecCut).              *)
(***************************************************************************)
Cut == tasks[1].inv
CutWrites == { i \in 1..Len(Cut.trace) : Cut.trace[i].op = "writeFile" }

\* the target write has failed; the source write has failed; the run has
\* stopped after the target write and before the source write
TargetWriteFailed == Cut.thrown /\ Cardinality(CutWrites) = 1
SourceWriteFailed == Cut.thrown /\ Cardinality(CutWrites) = 2
StoppedBetween == tasks[1].stopped /\ tasks[1].at = 3

CutSourceNow == readFile(fs, Cut.validSourcePath)
CutTargetNow == readFile(fs, Cut.validTargetPath)
CutSourceBefore == readFile(before0, Cut.validSourcePath)
SameFile == CutSourceBefore.path = Landing(before0, Cut.validTargetPath, MaxLinks).path

\* C26: cut_to_new_file writes the target first and the source second; when
\* the target write fails the source is as it was; when the source write
\* fails, or the run stops between the two writes, the target holds the
\* extracted span and the source its original content
C26_TargetFirstNoRollback ==
    /\ \A i \in CutWrites :
          Cut.trace[i].path
            = IF \A j \in CutWrites : i <= j THEN Cut.validTargetPath
              ELSE Cut.validSourcePath
    /\ TargetWriteFailed => fs = before0
    /\ (SourceWriteFailed \/ StoppedBetween) =>
          /\ CutTargetNow.ok
          /\ CutTargetNow.data = extract(Cut.content, Cut.range)
          /\ CutSourceNow = CutSourceBefore

\* the same with source and target two different files
C26_TwoFiles ==
    ~SameFile => C26_TargetFirstNoRollback

(***************************************************************************)
(* SpecAgain: the same delete_range or replace_block request sent again,   *)
(* each call handled from its first line to its return before the next,    *)
(* on a file of any content.                                               *)
(***************************************************************************)
AgainFile == << <<"r">>, <<"f">> >>
AgainPath == <<"/", "r", "/", "f">>
AgainContents == SeqsUpTo(FileAlphabet, MaxAgainLen)
\* new text without a marker in it, and with one
AgainTexts == { <<>>, <<"Z">>, <<"Y">>, <<"Z", "Y">>, <<"X", "Z">> }

\* markers of no, one and two characters, one of them its own overlap
AgainMarkers == { <<>>, <<"X">>, <<"Y">>, <<"X", "Y">>, <<"X", "X">> }
AgainRanges == [beforeText : AgainMarkers, afterText : AgainMarkers]

AgainArgs(name) ==
    [wellFormed : {TRUE}, path : {AgainPath}, sourcePath : {<<>>}, targetPath : {<<>>},
     range : AgainRanges, position : {NoRange},
     content : IF name = "replace_block" THEN AgainTexts ELSE { <<>> },
     source : {<<>>}, destination : {<<>>}]

InitAgain ==
    /\ \E content \in AgainContents : fs = Tree(<< <<"o">>, <<"f">> >>, content)
    /\ rootArgs = << <<"/", "r">> >>
    /\ \E name \in { "delete_range", "replace_block" } :
          \E args \in AgainArgs(name) : call = [name |-> name, arguments |-> args]
    /\ response = NoResponse
    /\ before0 = fs
    /\ calls = 0
    /\ events = <<>>
    /\ tasks = <<>>
    /\ log = <<>>
    /\ PathDefaults
    /\ RangeDefaults

\* the handler runs on the request once more; log keeps, of each call, the
\* content it read, the range it resolved, whether it threw, and the content
\* of the file at its return
CallAgain ==
    /\ calls < MaxAgain
    /\ \E inv \in { dispatch(fs, allowedDirectories(rootArgs), call.name, call.arguments) } :
          \E done \in { respond(inv) } :
             /\ fs' = done.fs
             /\ response' = done.response
             /\ events' = done.events
             /\ log' = Append(log, [content |-> inv.content, range |-> inv.range,
                                    thrown |-> inv.thrown, after |-> done.fs[AgainFile].c])
    /\ before0' = fs
    /\ calls' = calls + 1
    /\ UNCHANGED <<call, rootArgs, pathVars, rangeVars, tasks>>

NextAgain == CallAgain

SpecAgain == InitAgain /\ [][NextAgain]_vars

(***************************************************************************)
(* Properties of a repeated request (SpecAgain).                           *)
(***************************************************************************)
AgainRange == call.arguments.range
\* the calls that returned without an error
Returned == { i \in 1..Len(log) : ~log[i].thrown }

\* C28: a successful delete_range on content C with resolved span
\* [start, end) leaves the file equal to C[:start] + C[end:], with beforeText
\* ending at start and afterText beginning there; the same request sent again
\* resolves to the empty span at the same start, succeeds, and leaves the
\* file as it is
C28_DeleteRangeIdempotent ==
    call.name = "delete_range" =>
        \A i \in Returned :
           LET C == log[i].content
               start == log[i].range.start
               end == log[i].range.end
           IN  /\ log[i].after = SubSeq(C, 1, start) \o SubSeq(C, end + 1, Len(C))
               /\ OccursAt(log[i].after, AgainRange.beforeText,
                           start - Len(AgainRange.beforeText))
               /\ OccursAt(log[i].after, AgainRange.afterText, start)
               /\ i < Len(log) =>
                     /\ i + 1 \in Returned
                     /\ log[i + 1].content = log[i].after
                     /\ log[i + 1].range = Range(start, start)
                     /\ log[i + 1].after = log[i].after

\* a delete_range took a span of at least one character from between two
\* markers that do not stand at the start of the file, and was sent again
C28_Witness ==
    /\ call.name = "delete_range"
    /\ Len(log) > 1
    /\ Returned = 1..Len(log)
    /\ log[1].range.start > 0
    /\ log[1].range.end > log[1].range.start
    /\ AgainRange.afterText # <<>>
    /\ log[2].after # log[1].content
    /\ fs[AgainFile].c = log[1].after

\* afterText stands at no offset below |S| of S followed by afterText
AfterTextNotBefore(S, afterText) ==
    \A k \in 0..(Len(S) - 1) : ~OccursAt(S \o afterText, afterText, k)

\* C29: after a successful replace_block with content S on a span starting at
\* start, the same markers resolved on the new content start at start again;
\* when afterText does not occur in S followed by afterText at an offset below
\* |S|, they resolve to [start, start + |S|), which holds S, and the same
\* replace_block sent again leaves the file as it is
C29_ReplaceBlockReadBack ==
    call.name = "replace_block" =>
        \A i \in Returned :
           i < Len(log) =>
              LET S == call.arguments.content
                  start == log[i].range.start
                  again == log[i + 1]
              IN  /\ again.content = log[i].after
                  /\ ~again.thrown
                  /\ again.range.start = start
                  /\ AfterTextNotBefore(S, AgainRange.afterText) =>
                        /\ again.range = Range(start, start + Len(S))
                        /\ substring(again.content, start, start + Len(S)) = S
                        /\ again.after = log[i].after

\* a replace_block put a text of two characters, one of them the other
\* marker, in place of a different span that does not start the file, and
\* was sent again
C29_Witness ==
    /\ call.name = "replace_block"
    /\ Len(log) > 1
    /\ Returned = 1..Len(log)
    /\ Len(call.arguments.content) > 1
    /\ AfterTextNotBefore(call.arguments.content, AgainRange.afterText)
    /\ log[1].range.start > 0
    /\ log[1].after # log[1].content
    /\ log[2].range = Range(log[1].range.start, log[1].range.start + 2)
    /\ fs[AgainFile].c = log[1].after

=============================================================================
